---- MODULE Spec2Model ----
(***************************************************************************)
(* Model of the RAG vector store of the agent framework                    *)
(* (src/agent/rag/vector_store.py) and of the retrieval entry point that   *)
(* formats its results (src/agent/rag/retrieval_tool.py).                  *)
(*                                                                         *)
(* One VectorStore instance is live at a time; the persisted directory     *)
(* outlives it.  Every call into a library that can fail (opening Chroma,  *)
(* loading or building a FAISS index, embedding, saving, searching,        *)
(* deleting) takes its outcome as an input of the action.  The file        *)
(* system calls mkdir and rmtree are taken to succeed.                     *)
(***************************************************************************)
EXTENDS Integers, Sequences, FiniteSets, TLC

VARIABLES
    phase,          \* "uninit" (no instance) | "ready" | "failed" (__init__ raised)
    origin,         \* how the live instance got its backend: "none" | "direct" |
                    \* "retry" (Chroma reopened after a reset) | "fallback" |
                    \* "schema_fallback" (FAISS after a schema-mismatch error of Chroma)
    store_type,     \* self.store_type
    vector_store,   \* self.vector_store: "None" | "Chroma" | "FAISS"
    faissMem,       \* the entries of the in-memory FAISS index behind the handle
    chromaColl,     \* the Chroma collection exists in <persist>/chroma
    chromaEntries,  \* its entries (Chroma persists on every write)
    faissDisk,      \* <persist>/faiss_index: [saved, entries] as of the last save_local
    dirs,           \* which backend subdirectories exist under persist_directory
    nextId,         \* next backend-assigned entry identifier
    last            \* the last call: its inputs, outcome and return value

vars == <<phase, origin, store_type, vector_store, faissMem,
          chromaColl, chromaEntries, faissDisk, dirs, nextId, last>>

----------------------------------------------------------------------------
(* Bounds of the model *)

MaxIds == 2

----------------------------------------------------------------------------
(* Inputs *)

\* store_type arguments of the constructor (lower-cased by __init__)
StoreTypeArgs == {"chroma", "faiss", "FAISS", "pinecone"}

lower(s) == IF s = "FAISS" THEN "faiss" ELSE s

\* messages of the exception the Chroma constructor can raise ("none": no exception)
ChromaErrors == {"none", "no such column: collections.topic",
                 "sqlite3.OperationalError: disk I/O error",
                 "schema mismatch", "permission denied"}

\* the substrings _init_chroma looks for, and which message contains which
Contains(msg, sub) ==
    \/ msg = "no such column: collections.topic" /\ sub = "no such column"
    \/ msg = "sqlite3.OperationalError: disk I/O error" /\ sub = "OperationalError"
    \/ msg = "schema mismatch" /\ sub = "schema"

\* Python strings are values of their own here; the table gives the
\* characters of every string the string operations of the tools can meet
StringTable ==
    {<<"", <<>>>>,
     <<"#", <<"#">>>>,
     <<".", <<".">>>>,
     <<"0", <<"0">>>>,
     <<"1", <<"1">>>>,
     <<"2", <<"2">>>>,
     <<"3", <<"3">>>>,
     <<"T", <<"T">>>>,
     <<"a", <<"a">>>>,
     <<"b", <<"b">>>>,
     <<"k", <<"k">>>>,
     <<"t", <<"t">>>>,
     <<"x", <<"x">>>>,
     <<"  ", <<" ", " ">>>>,
     <<"#.", <<"#", ".">>>>,
     <<"#T", <<"#", "T">>>>,
     <<"ta", <<"t", "a">>>>,
     <<"zz", <<"z", "z">>>>,
     <<" ta", <<" ", "t", "a">>>>,
     <<"#  ", <<"#", " ", " ">>>>,
     <<"#ta", <<"#", "t", "a">>>>,
     <<"#zz", <<"#", "z", "z">>>>,
     <<".md", <<".", "m", "d">>>>,
     <<".py", <<".", "p", "y">>>>,
     <<"a:b", <<"a", ":", "b">>>>,
     <<"k:1", <<"k", ":", "1">>>>,
     <<"k:2", <<"k", ":", "2">>>>,
     <<"k:x", <<"k", ":", "x">>>>,
     <<"rag", <<"r", "a", "g">>>>,
     <<"tb1", <<"t", "b", "1">>>>,
     <<"tb2", <<"t", "b", "2">>>>,
     <<"tn1", <<"t", "n", "1">>>>,
     <<"tn2", <<"t", "n", "2">>>>,
     <<"# ta", <<"#", " ", "t", "a">>>>,
     <<"#a:b", <<"#", "a", ":", "b">>>>,
     <<".bin", <<".", "b", "i", "n">>>>,
     <<".txt", <<".", "t", "x", "t">>>>,
     <<"INFO", <<"I", "N", "F", "O">>>>,
     <<"id_a", <<"i", "d", "_", "a">>>>,
     <<"id_b", <<"i", "d", "_", "b">>>>,
     <<"info", <<"i", "n", "f", "o">>>>,
     <<"text", <<"t", "e", "x", "t">>>>,
     <<"true", <<"t", "r", "u", "e">>>>,
     <<" id_a", <<" ", "i", "d", "_", "a">>>>,
     <<"*.txt", <<"*", ".", "t", "x", "t">>>>,
     <<"a.txt", <<"a", ".", "t", "x", "t">>>>,
     <<"bogus", <<"b", "o", "g", "u", "s">>>>,
     <<"c.txt", <<"c", ".", "t", "x", "t">>>>,
     <<"clear", <<"c", "l", "e", "a", "r">>>>,
     <<"faiss", <<"f", "a", "i", "s", "s">>>>,
     <<"false", <<"f", "a", "l", "s", "e">>>>,
     <<"info:", <<"i", "n", "f", "o", ":">>>>,
     <<"nodir", <<"n", "o", "d", "i", "r">>>>,
     <<"query", <<"q", "u", "e", "r", "y">>>>,
     <<"title", <<"t", "i", "t", "l", "e">>>>,
     <<"topic", <<"t", "o", "p", "i", "c">>>>,
     <<"x.bin", <<"x", ".", "b", "i", "n">>>>,
     <<"#a.txt", <<"#", "a", ".", "t", "x", "t">>>>,
     <<"#c.txt", <<"#", "c", ".", "t", "x", "t">>>>,
     <<"#nodir", <<"#", "n", "o", "d", "i", "r">>>>,
     <<"#x.bin", <<"#", "x", ".", "b", "i", "n">>>>,
     <<"chroma", <<"c", "h", "r", "o", "m", "a">>>>,
     <<"doc_id", <<"d", "o", "c", "_", "i", "d">>>>,
     <<"filter", <<"f", "i", "l", "t", "e", "r">>>>,
     <<"ta|k:x", <<"t", "a", "|", "k", ":", "x">>>>,
     <<"long tb", <<"l", "o", "n", "g", " ", "t", "b">>>>,
     <<"long tn", <<"l", "o", "n", "g", " ", "t", "n">>>>,
     <<"storage", <<"s", "t", "o", "r", "a", "g", "e">>>>,
     <<"text:zz", <<"t", "e", "x", "t", ":", "z", "z">>>>,
     <<"title:T", <<"t", "i", "t", "l", "e", ":", "T">>>>,
     <<"title:t", <<"t", "i", "t", "l", "e", ":", "t">>>>,
     <<"#long tb", <<"#", "l", "o", "n", "g", " ", "t", "b">>>>,
     <<"#long tn", <<"#", "l", "o", "n", "g", " ", "t", "n">>>>,
     <<"add_file", <<"a", "d", "d", "_", "f", "i", "l", "e">>>>,
     <<"add_text", <<"a", "d", "d", "_", "t", "e", "x", "t">>>>,
     <<"bogus:ta", <<"b", "o", "g", "u", "s", ":", "t", "a">>>>,
     <<"datetime", <<"d", "a", "t", "e", "t", "i", "m", "e">>>>,
     <<"patterns", <<"p", "a", "t", "t", "e", "r", "n", "s">>>>,
     <<"query:zz", <<"q", "u", "e", "r", "y", ":", "z", "z">>>>,
     <<"a.txt|k:1", <<"a", ".", "t", "x", "t", "|", "k", ":", "1">>>>,
     <<"add_file:", <<"a", "d", "d", "_", "f", "i", "l", "e", ":">>>>,
     <<"add_files", <<"a", "d", "d", "_", "f", "i", "l", "e", "s">>>>,
     <<"add_text:", <<"a", "d", "d", "_", "t", "e", "x", "t", ":">>>>,
     <<"directory", <<"d", "i", "r", "e", "c", "t", "o", "r", "y">>>>,
     <<"recursive", <<"r", "e", "c", "u", "r", "s", "i", "v", "e">>>>,
     <<"calculator", <<"c", "a", "l", "c", "u", "l", "a", "t", "o", "r">>>>,
     <<"file_write", <<"f", "i", "l", "e", "_", "w", "r", "i", "t", "e">>>>,
     <<"ta|text:zz", <<"t", "a", "|", "t", "e", "x", "t", ":", "z", "z">>>>,
     <<"ta|title:T", <<"t", "a", "|", "t", "i", "t", "l", "e", ":", "T">>>>,
     <<"ta|title:t", <<"t", "a", "|", "t", "i", "t", "l", "e", ":", "t">>>>,
     <<"text_input", <<"t", "e", "x", "t", "_", "i", "n", "p", "u", "t">>>>,
     <<"web_search", <<"w", "e", "b", "_", "s", "e", "a", "r", "c", "h">>>>,
     <<"a.txt,c.txt", <<"a", ".", "t", "x", "t", ",", "c", ".", "t", "x", "t">>>>,
     <<"add_text:  ", <<"a", "d", "d", "_", "t", "e", "x", "t", ":", " ", " ">>>>,
     <<"doc_id=id_a", <<"d", "o", "c", "_", "i", "d", "=", "i", "d", "_", "a">>>>,
     <<"ta|query:zz", <<"t", "a", "|", "q", "u", "e", "r", "y", ":", "z", "z">>>>,
     <<"with_scores", <<"w", "i", "t", "h", "_", "s", "c", "o", "r", "e", "s">>>>,
     <<"#a.txt,c.txt", <<"#", "a", ".", "t", "x", "t", ",", "c", ".", "t", "x", "t">>>>,
     <<"arxiv_bibtex", <<"a", "r", "x", "i", "v", "_", "b", "i", "b", "t", "e", "x">>>>,
     <<"arxiv_search", <<"a", "r", "x", "i", "v", "_", "s", "e", "a", "r", "c", "h">>>>,
     <<"doc_id= id_a", <<"d", "o", "c", "_", "i", "d", "=", " ", "i", "d", "_", "a">>>>,
     <<"file_manager", <<"f", "i", "l", "e", "_", "m", "a", "n", "a", "g", "e", "r">>>>,
     <<"add_directory", <<"a", "d", "d", "_", "d", "i", "r", "e", "c", "t", "o", "r", "y">>>>,
     <<"http_download", <<"h", "t", "t", "p", "_", "d", "o", "w", "n", "l", "o", "a", "d">>>>,
     <<"rag_retrieval", <<"r", "a", "g", "_", "r", "e", "t", "r", "i", "e", "v", "a", "l">>>>,
     <<"add_directory:",
        <<"a", "d", "d", "_", "d", "i", "r", "e", "c", "t", "o", "r", "y", ":">>>>,
     <<"add_file:a.txt",
        <<"a", "d", "d", "_", "f", "i", "l", "e", ":", "a", ".", "t", "x", "t">>>>,
     <<"arxiv_metadata",
        <<"a", "r", "x", "i", "v", "_", "m", "e", "t", "a", "d", "a", "t", "a">>>>,
     <<"arxiv_pdf_info",
        <<"a", "r", "x", "i", "v", "_", "p", "d", "f", "_", "i", "n", "f", "o">>>>,
     <<"arxiv_versions",
        <<"a", "r", "x", "i", "v", "_", "v", "e", "r", "s", "i", "o", "n", "s">>>>,
     <<"patterns:*.txt",
        <<"p", "a", "t", "t", "e", "r", "n", "s", ":", "*", ".", "t", "x", "t">>>>,
     <<"rag_management",
        <<"r", "a", "g", "_", "m", "a", "n", "a", "g", "e", "m", "e", "n", "t">>>>,
     <<"add_directory:.",
        <<"a", "d", "d", "_", "d", "i", "r", "e", "c", "t", "o", "r", "y", ":", ".">>>>,
     <<"recursive:false",
        <<"r", "e", "c", "u", "r", "s", "i", "v", "e", ":", "f", "a", "l", "s", "e">>>>,
     <<"with_scores:true",
        <<"w", "i", "t", "h", "_", "s", "c", "o", "r", "e", "s", ":", "t", "r", "u",
          "e">>>>,
     <<"with_scores:false",
        <<"w", "i", "t", "h", "_", "s", "c", "o", "r", "e", "s", ":", "f", "a", "l",
          "s", "e">>>>,
     <<"add_file:a.txt|k:1",
        <<"a", "d", "d", "_", "f", "i", "l", "e", ":", "a", ".", "t", "x", "t", "|",
          "k", ":", "1">>>>,
     <<"filter:doc_id=id_a",
        <<"f", "i", "l", "t", "e", "r", ":", "d", "o", "c", "_", "i", "d", "=", "i",
          "d", "_", "a">>>>,
     <<"add_text:ta|text:zz",
        <<"a", "d", "d", "_", "t", "e", "x", "t", ":", "t", "a", "|", "t", "e", "x",
          "t", ":", "z", "z">>>>,
     <<"add_text:ta|title:T",
        <<"a", "d", "d", "_", "t", "e", "x", "t", ":", "t", "a", "|", "t", "i", "t",
          "l", "e", ":", "T">>>>,
     <<"add_text:ta|title:t",
        <<"a", "d", "d", "_", "t", "e", "x", "t", ":", "t", "a", "|", "t", "i", "t",
          "l", "e", ":", "t">>>>,
     <<"filter:doc_id= id_a",
        <<"f", "i", "l", "t", "e", "r", ":", "d", "o", "c", "_", "i", "d", "=", " ",
          "i", "d", "_", "a">>>>,
     <<"advanced_web_scraper",
        <<"a", "d", "v", "a", "n", "c", "e", "d", "_", "w", "e", "b", "_", "s", "c",
          "r", "a", "p", "e", "r">>>>,
     <<"add_files:a.txt,c.txt",
        <<"a", "d", "d", "_", "f", "i", "l", "e", "s", ":", "a", ".", "t", "x", "t",
          ",", "c", ".", "t", "x", "t">>>>,
     <<"ta|k:1|with_scores:false",
        <<"t", "a", "|", "k", ":", "1", "|", "w", "i", "t", "h", "_", "s", "c", "o",
          "r", "e", "s", ":", "f", "a", "l", "s", "e">>>>,
     <<" ta|k:1|with_scores:false",
        <<" ", "t", "a", "|", "k", ":", "1", "|", "w", "i", "t", "h", "_", "s", "c",
          "o", "r", "e", "s", ":", "f", "a", "l", "s", "e">>>>,
     <<"a:b|k:1|with_scores:false",
        <<"a", ":", "b", "|", "k", ":", "1", "|", "w", "i", "t", "h", "_", "s", "c",
          "o", "r", "e", "s", ":", "f", "a", "l", "s", "e">>>>,
     <<".|recursive:false|patterns:*.txt",
        <<".", "|", "r", "e", "c", "u", "r", "s", "i", "v", "e", ":", "f", "a", "l",
          "s", "e", "|", "p", "a", "t", "t", "e", "r", "n", "s", ":", "*", ".", "t",
          "x", "t">>>>,
     <<"zz|k:2|with_scores:true|filter:doc_id=id_a",
        <<"z", "z", "|", "k", ":", "2", "|", "w", "i", "t", "h", "_", "s", "c", "o",
          "r", "e", "s", ":", "t", "r", "u", "e", "|", "f", "i", "l", "t", "e", "r",
          ":", "d", "o", "c", "_", "i", "d", "=", "i", "d", "_", "a">>>>,
     <<"ta|k:1|with_scores:false|filter:doc_id= id_a",
        <<"t", "a", "|", "k", ":", "1", "|", "w", "i", "t", "h", "_", "s", "c", "o",
          "r", "e", "s", ":", "f", "a", "l", "s", "e", "|", "f", "i", "l", "t", "e",
          "r", ":", "d", "o", "c", "_", "i", "d", "=", " ", "i", "d", "_", "a">>>>,
     <<"add_directory:.|recursive:false|patterns:*.txt",
        <<"a", "d", "d", "_", "d", "i", "r", "e", "c", "t", "o", "r", "y", ":", ".",
          "|", "r", "e", "c", "u", "r", "s", "i", "v", "e", ":", "f", "a", "l", "s",
          "e", "|", "p", "a", "t", "t", "e", "r", "n", "s", ":", "*", ".", "t", "x",
          "t">>>>}

Strings == {p[1] : p \in StringTable}

CharsOf == [s \in Strings |-> (CHOOSE p \in StringTable : p[1] = s)[2]]

StringOf == [cs \in {p[2] : p \in StringTable} |-> (CHOOSE p \in StringTable : p[2] = cs)[1]]

\* the characters of a string
Chars(s) == CharsOf[s]

\* the string with the given characters
Intern(cs) == StringOf[cs]

RECURSIVE lstrip(_)
lstrip(cs) == IF cs # <<>> /\ Head(cs) = " " THEN lstrip(Tail(cs)) ELSE cs

RECURSIVE rstrip(_)
rstrip(cs) ==
    IF cs # <<>> /\ cs[Len(cs)] = " " THEN rstrip(SubSeq(cs, 1, Len(cs) - 1)) ELSE cs

\* str(n) of a small number
Str(n) == <<"0", "1", "2", "3", "4", "5", "6", "7", "8">>[n + 1]

\* str.strip()
strip(s) == Intern(rstrip(lstrip(Chars(s))))

\* ch in s, for a character ch
has(s, ch) == LET cs == Chars(s) IN \E i \in 1..Len(cs) : cs[i] = ch

\* sub in s, for a substring sub
InStr(sub, s) ==
    LET cs == Chars(s)
        n  == Len(Chars(sub))
    IN  \E i \in 1..(Len(cs) - n + 1) : SubSeq(cs, i, i + n - 1) = Chars(sub)

\* the positions of ch in cs
Positions(cs, ch) == {i \in 1..Len(cs) : cs[i] = ch}

First(S) == CHOOSE i \in S : \A j \in S : i <= j

Last(S) == CHOOSE i \in S : \A j \in S : j <= i

\* s.split(ch, 1): one piece without ch, else the text before and after the first ch
split1(s, ch) ==
    LET cs == Chars(s)
        at == Positions(cs, ch)
    IN  IF at = {} THEN <<s>>
        ELSE <<Intern(SubSeq(cs, 1, First(at) - 1)),
               Intern(SubSeq(cs, First(at) + 1, Len(cs)))>>

\* the runs of characters between the occurrences of ch
RECURSIVE Pieces(_, _)
Pieces(cs, ch) ==
    LET at == Positions(cs, ch)
    IN  IF at = {} THEN <<cs>>
        ELSE <<SubSeq(cs, 1, First(at) - 1)>>
               \o Pieces(SubSeq(cs, First(at) + 1, Len(cs)), ch)

\* s.split(ch)
split(s, ch) ==
    LET pieces == Pieces(Chars(s), ch) IN [i \in 1..Len(pieces) |-> Intern(pieces[i])]

LowerChar(c) ==
    CASE c = "I" -> "i" [] c = "N" -> "n" [] c = "F" -> "f" [] c = "O" -> "o"
      [] c = "T" -> "t" [] OTHER -> c

\* str.lower() of the tools' inputs
str_lower(s) == LET cs == Chars(s) IN Intern([i \in 1..Len(cs) |-> LowerChar(cs[i])])

\* a + b
concat(a, b) == Intern(Chars(a) \o Chars(b))

Digits == <<"0", "1", "2", "3", "4", "5", "6", "7", "8", "9">>

DigitValue(c) == (CHOOSE i \in 1..10 : Digits[i] = c) - 1

RECURSIVE Decimal(_)
Decimal(cs) ==
    IF cs = <<>> THEN 0
    ELSE 10 * Decimal(SubSeq(cs, 1, Len(cs) - 1)) + DigitValue(cs[Len(cs)])

\* int(s) raises ValueError unless s, stripped, is a run of digits
IsInt(s) ==
    LET cs == Chars(strip(s))
    IN  cs # <<>> /\ \A i \in 1..Len(cs) : \E j \in 1..10 : Digits[j] = cs[i]

int(s) == Decimal(Chars(strip(s)))

\* Document(page_content=..., metadata=...): metadata is a mapping from keys
Document(page_content, metadata) == [page_content |-> page_content, metadata |-> metadata]

\* Documents handed to add_documents: DocA and DocB carry a doc_id, DocN carries
\* none; the texts of DocB and DocN stand for texts longer than chunk_size
DocA == Document("ta", [key \in {"doc_id"} |-> "id_a"])

DocB == Document("long tb", [key \in {"doc_id"} |-> "id_b"])

DocN == Document("long tn", [key \in {} |-> ""])

Docs == {DocA, DocB, DocN}

HasDocId(d) == "doc_id" \in DOMAIN d.metadata

DocId(d) == d.metadata["doc_id"]

\* the chunk texts RecursiveCharacterTextSplitter cuts a Document into: two
\* for a long text, none for a text that is empty once stripped, else the text
split_documents(d) ==
    CASE d.page_content = "ta" -> <<"ta">>
      [] d.page_content = "long tb" -> <<"tb1", "tb2">>
      [] d.page_content = "long tn" -> <<"tn1", "tn2">>
      [] OTHER -> IF strip(d.page_content) = "" THEN <<>>
                  ELSE <<strip(d.page_content)>>

\* uuid.uuid4().hex: the j-th evaluation while one Document is chunked
uuid4(j) == <<"u1", "u2", "u3", "u4", "u5", "u6">>[j]

DocLists == {<<>>} \cup {<<d>> : d \in Docs} \cup {<<DocA, DocA>>, <<DocA, DocB>>}

Queries == {"ta", "zz"}

Ks == {1, 2}

\* filter_metadata: the empty mapping stands for None and {} alike (both falsy)
NoFilter == [key \in {} |-> ""]

FilterA == [key \in {"doc_id"} |-> "id_a"]

FilterATopic == [key \in {"doc_id", "topic"} |-> IF key = "doc_id" THEN "id_a" ELSE "rag"]

Filters == {NoFilter, FilterA, FilterATopic}

\* the (query, k, filter_metadata) triples the searches are called with
SearchArgs ==
    {<<"ta", 1, NoFilter>>, <<"zz", 2, FilterA>>, <<"ta", 2, FilterATopic>>,
     <<"zz", 1, FilterA>>}

Min(x, y) == IF x <= y THEN x ELSE y

----------------------------------------------------------------------------
(* Entries *)

\* the document _init_faiss seeds a new index with
dummy_doc ==
    [id |-> 0, text |-> "Dummy document for initialization", doc_id |-> "dummy",
     chunk_id |-> <<"", -1>>, chunk_index |-> -1, total_chunks |-> -1,
     parent_doc_id |-> ""]

\* doc.metadata.get('doc_id', uuid.uuid4().hex), the j-th uuid evaluation
doc_id_or_uuid(d, j) == IF HasDocId(d) THEN DocId(d) ELSE uuid4(j)

\* chunk i of Document d numbered by its position in the whole batch
Chunk_batch_index(d, i, id) ==
    [id |-> id, text |-> split_documents(d)[i + 1],
     doc_id |-> IF HasDocId(d) THEN DocId(d) ELSE "",
     chunk_id |-> <<doc_id_or_uuid(d, 2 * i + 1), i>>,
     chunk_index |-> id - 1,
     total_chunks |-> Len(split_documents(d)),
     parent_doc_id |-> doc_id_or_uuid(d, 2 * i + 2)]

\* chunk i (0-based) of Document d, stored under backend identifier id
Chunk(d, i, id) ==
    [id |-> id, text |-> split_documents(d)[i + 1],
     doc_id |-> IF HasDocId(d) THEN DocId(d) ELSE "",
     chunk_id |-> <<doc_id_or_uuid(d, 2 * i + 1), i>>,
     chunk_index |-> i,
     total_chunks |-> Len(split_documents(d)),
     parent_doc_id |-> doc_id_or_uuid(d, 2 * i + 2)]

\* the chunks of one Document, identifiers from first on
ChunksOf(d, first) ==
    [i \in 1..Len(split_documents(d)) |-> Chunk(d, i - 1, first + i - 1)]

\* chunked_docs of add_documents: for doc in documents, for i, chunk in enumerate(chunks)
RECURSIVE chunked_docs(_, _)
chunked_docs(documents, first) ==
    IF documents = <<>> THEN <<>>
    ELSE ChunksOf(Head(documents), first)
           \o chunked_docs(Tail(documents), first + Len(split_documents(Head(documents))))

\* the identifier of the first chunk only
Ids_first(entries) == IF entries = <<>> THEN <<>> ELSE <<entries[1].id>>

\* the identifiers add_documents returns, one for each chunk
Ids(entries) == [i \in 1..Len(entries) |-> entries[i].id]

\* doc.metadata.get(key): "" stands for None (a key the metadata lacks)
MetaGet(c, key) == IF key = "doc_id" THEN c.doc_id ELSE ""

\* all(doc.metadata.get(key) == value for key, value in filter_metadata.items())
Matches(c, f) == \A key \in DOMAIN f : MetaGet(c, key) = f[key]

\* distance of an entry from the query: 0 when the entry holds the query text
Score(q, c) == IF c.text = q THEN 0 ELSE 1

\* the first k entries in insertion order, whatever their distance
TopK_insertion_order(entries, q, k) == SubSeq(entries, 1, Min(k, Len(entries)))

\* the k nearest entries, nearest first, insertion order among equals
TopK(entries, q, k) ==
    LET near == SelectSeq(entries, LAMBDA c : Score(q, c) = 0)
        far  == SelectSeq(entries, LAMBDA c : Score(q, c) = 1)
        all  == near \o far
    IN  SubSeq(all, 1, Min(k, Len(all)))

WithScores(q, results) == [i \in 1..Len(results) |-> <<results[i], Score(q, results[i])>>]

----------------------------------------------------------------------------
(* DocumentProcessor *)

\* None, for an optional argument that is left out
None == "None"

\* a metadata mapping without keys; None and {} are both falsy
NoMeta == [key \in {} |-> ""]

\* dict.update: the keys of the second mapping win
Update(m1, m2) ==
    [key \in DOMAIN m1 \cup DOMAIN m2 |-> IF key \in DOMAIN m2 THEN m2[key] ELSE m1[key]]

\* an identifier that does not depend on the content
generate_doc_id_fixed(content) == concat("#", "")

\* hashlib.md5(content.encode('utf-8')).hexdigest(): "#" followed by the content
\* stands for the digest, one digest per content
generate_doc_id(content) == concat("#", content)

\* DocumentProcessor.process_text
process_text(text, metadata) ==
    Document(text,
             Update([key \in {"source", "doc_id", "content_length"} |->
                        CASE key = "source" -> "text_input"
                          [] key = "doc_id" -> generate_doc_id(text)
                          [] key = "content_length" -> Str(Len(Chars(text)))],
                    metadata))

\* what a path of the file system holds: the text of a file, or one of these
Absent == "<absent>"

IsDir == "<dir>"

\* the paths of the model, all in the working directory, in listing order
Paths == <<"a.txt", "c.txt", "x.bin">>

\* Path(p): the empty path is the working directory
Path(p) == IF p = "" THEN "." ELSE p

\* what the file system fs holds at a path
At(fs, p) ==
    IF Path(p) = "." THEN IsDir
    ELSE IF \E i \in 1..Len(Paths) : Paths[i] = p THEN fs[p]
    ELSE Absent

\* Path(p).suffix.lower()
suffix(p) ==
    LET cs == Chars(Path(p))
        at == Positions(cs, ".")
    IN  IF at = {} \/ Last(at) = 1 THEN ""
        ELSE str_lower(Intern(SubSeq(cs, Last(at), Len(cs))))

\* the keys of supported_extensions (.pdf and .docx come with their libraries)
supported_extensions ==
    {".txt", ".md", ".py", ".js", ".json", ".yaml", ".yml", ".xml", ".html", ".css", ".sql"}

\* DocumentProcessor.is_supported
is_supported(p) == suffix(p) \in supported_extensions

\* a file that is there but that its loader cannot read
Unreadable == "<unreadable>"

\* what a method body came to: the exception flag and the list it returned
Outcome(raised, docs) == [raised |-> raised, docs |-> docs]

\* a method without its except clause: the exception leaves the method
CaughtNot(r) == r

\* except Exception: log the error and return []
Caught(r) == IF r.raised THEN Outcome(FALSE, <<>>) ELSE r

\* the try block of DocumentProcessor.process_file; fs is the file system at
\* the time of the call, loadOK the outcome of the loader (a loader that
\* fails returns no Document), statOK that of file_path.stat().  The stat
\* times are left out of the metadata.
process_file_try(fs, file_path, metadata, loadOK, statOK) ==
    LET p == Path(file_path)
    IN  IF At(fs, p) = Absent THEN Outcome(FALSE, <<>>)
        ELSE IF ~is_supported(p) THEN Outcome(FALSE, <<>>)
        ELSE IF ~statOK THEN Outcome(TRUE, <<>>)
        ELSE IF ~loadOK \/ At(fs, p) = Unreadable THEN Outcome(FALSE, <<>>)
        ELSE Outcome(FALSE,
               <<Document(At(fs, p),
                        Update([key \in {"source", "filename", "file_extension",
                                         "doc_id", "file_size"} |->
                                   CASE key = "source" -> p
                                     [] key = "filename" -> p
                                     [] key = "file_extension" -> suffix(p)
                                     [] key = "doc_id" -> generate_doc_id(p)
                                     [] key = "file_size" -> Str(Len(Chars(At(fs, p))))],
                               metadata))>>)

\* DocumentProcessor.process_file as its callers see it
process_file(fs, file_path, metadata, loadOK) ==
    Caught(process_file_try(fs, file_path, metadata, loadOK, TRUE)).docs

\* a file pattern such as *.txt matches the paths with its suffix
MatchesPattern(p, pattern) == suffix(p) = suffix(pattern)

\* the files process_directory is left with after the include patterns
RECURSIVE ProcessEach(_, _, _)
ProcessEach(fs, files, loadOK) ==
    IF files = <<>> THEN <<>>
    ELSE (IF is_supported(Head(files))
          THEN process_file(fs, Head(files), NoMeta, loadOK) ELSE <<>>)
           \o ProcessEach(fs, Tail(files), loadOK)

\* the try block of DocumentProcessor.process_directory, as the tools call it
\* (no exclude patterns); the directories of the model hold no subdirectory,
\* so rglob and glob list the same files; listOK is the outcome of listing
process_directory_try(fs, directory_path, recursive, file_patterns, loadOK, listOK) ==
    IF At(fs, directory_path) # IsDir THEN Outcome(FALSE, <<>>)
    ELSE IF ~listOK THEN Outcome(TRUE, <<>>)
    ELSE LET files == SelectSeq(Paths, LAMBDA p : At(fs, p) \notin {Absent, IsDir})
             kept == IF file_patterns = <<>> THEN files
                     ELSE SelectSeq(files, LAMBDA p :
                              \E i \in 1..Len(file_patterns) :
                                  MatchesPattern(p, file_patterns[i]))
         IN  Outcome(FALSE, ProcessEach(fs, kept, loadOK))

\* DocumentProcessor.process_directory as its callers see it
process_directory(fs, directory_path, recursive, file_patterns, loadOK) ==
    Caught(process_directory_try(fs, directory_path, recursive, file_patterns,
                                 loadOK, TRUE)).docs

\* not doc.page_content or not doc.page_content.strip()
IsBlank(text) == strip(text) = ""

\* DocumentProcessor.validate_documents
validate_documents(documents) ==
    LET kept == SelectSeq(documents, LAMBDA doc : ~IsBlank(doc.page_content))
    IN  [i \in 1..Len(kept) |->
            IF HasDocId(kept[i]) THEN kept[i]
            ELSE [kept[i] EXCEPT !.metadata =
                     Update(@, [key \in {"doc_id"} |-> generate_doc_id(kept[i].page_content)])]]

----------------------------------------------------------------------------
(* The object and its directory as one value, so that the helper methods   *)
(* can be composed the way the code calls them.                            *)

World ==
    [store_type |-> store_type, vector_store |-> vector_store, faissMem |-> faissMem,
     chromaColl |-> chromaColl, chromaEntries |-> chromaEntries,
     faissDisk |-> faissDisk, dirs |-> dirs,
     raised |-> FALSE, opens |-> 0, resets |-> 0, chromaFailed |-> FALSE,
     faissFailed |-> FALSE, calls |-> 0, list |-> <<>>, flag |-> FALSE,
     count |-> 0, text |-> <<>>, used |-> 0,
     \* what a tool call did: the Documents handed to add_documents and the
     \* number of such calls, the number of DocumentProcessor calls, the
     \* RAGRetrievalTool operation a dispatch invoked and the path or text it
     \* was invoked with, and the search issued to the VectorStore
     handed |-> <<>>, adds |-> 0, proc |-> 0, invoked |-> "none", arg |-> None,
     search |-> <<>>]

NoIndex == [saved |-> FALSE, entries |-> <<>>]

\* the test of _init_chroma on the message of the first failure
IsSchemaMismatch(msg) ==
    Contains(msg, "no such column") \/ Contains(msg, "OperationalError") \/ Contains(msg, "schema")

\* _init_chroma resetting the directory and retrying whatever the error is
init_chroma_retry_any(w, err, retryOK) ==
    LET w1 == [w EXCEPT !.dirs = @ \cup {"chroma"}, !.opens = 1]
        opened(x) == [x EXCEPT !.vector_store = "Chroma", !.chromaColl = TRUE]
        w2 == [w1 EXCEPT !.resets = @ + 1, !.chromaColl = FALSE,
                         !.chromaEntries = <<>>, !.opens = @ + 1]
    IN  IF err = "none" THEN opened(w1)
        ELSE IF retryOK THEN opened(w2)
        ELSE [w2 EXCEPT !.raised = TRUE, !.chromaFailed = TRUE]

\* VectorStore._init_chroma: err is the first Chroma(...) call's exception,
\* retryOK the outcome of the second call made after the directory reset
init_chroma(w, err, retryOK) ==
    LET w1 == [w EXCEPT !.dirs = @ \cup {"chroma"}, !.opens = 1]
        opened(x) == [x EXCEPT !.vector_store = "Chroma", !.chromaColl = TRUE]
    IN  IF err = "none" THEN opened(w1)
        ELSE IF IsSchemaMismatch(err)
        THEN LET w2 == [w1 EXCEPT !.resets = @ + 1, !.chromaColl = FALSE,
                                  !.chromaEntries = <<>>, !.opens = @ + 1]
             IN  IF retryOK THEN opened(w2)
                 ELSE [w2 EXCEPT !.raised = TRUE, !.chromaFailed = TRUE]
        ELSE [w1 EXCEPT !.raised = TRUE, !.chromaFailed = TRUE]

\* VectorStore._init_faiss: loadOK is FAISS.load_local's outcome on an index
\* that is there, buildOK that of FAISS.from_documents([dummy_doc])
init_faiss(w, loadOK, buildOK) ==
    LET w1 == [w EXCEPT !.dirs = @ \cup {"faiss_index"}]
        w2 == IF w1.faissDisk.saved /\ loadOK
              THEN [w1 EXCEPT !.vector_store = "FAISS", !.faissMem = w1.faissDisk.entries]
              ELSE [w1 EXCEPT !.vector_store = "None", !.faissMem = <<>>]
    IN  IF w2.vector_store = "None"
        THEN IF buildOK
             THEN [w2 EXCEPT !.vector_store = "FAISS", !.faissMem = <<dummy_doc>>]
             ELSE [w2 EXCEPT !.raised = TRUE, !.faissFailed = TRUE]
        ELSE w2

\* _initialize_vector_store falling back without recording the new store_type
initialize_vector_store_no_switch(w, err, retryOK, loadOK, buildOK) ==
    IF w.store_type = "chroma"
    THEN LET c == init_chroma(w, err, retryOK)
         IN  IF ~c.raised THEN c
             ELSE init_faiss([c EXCEPT !.raised = FALSE], loadOK, buildOK)
    ELSE IF w.store_type = "faiss" THEN init_faiss(w, loadOK, buildOK)
    ELSE [w EXCEPT !.raised = TRUE]

\* _initialize_vector_store letting a Chroma failure propagate
initialize_vector_store_no_fallback(w, err, retryOK, loadOK, buildOK) ==
    IF w.store_type = "chroma" THEN init_chroma(w, err, retryOK)
    ELSE IF w.store_type = "faiss" THEN init_faiss(w, loadOK, buildOK)
    ELSE [w EXCEPT !.raised = TRUE]

\* VectorStore._initialize_vector_store
initialize_vector_store(w, err, retryOK, loadOK, buildOK) ==
    IF w.store_type = "chroma"
    THEN LET c == init_chroma(w, err, retryOK)
         IN  IF ~c.raised THEN c
             ELSE init_faiss([c EXCEPT !.store_type = "faiss", !.raised = FALSE],
                             loadOK, buildOK)
    ELSE IF w.store_type = "faiss" THEN init_faiss(w, loadOK, buildOK)
    ELSE [w EXCEPT !.raised = TRUE]

\* the handle can serve calls: a Chroma handle needs its collection
Usable(w) ==
    \/ w.vector_store = "Chroma" /\ w.chromaColl
    \/ w.vector_store = "FAISS"

----------------------------------------------------------------------------
(* The public methods of VectorStore, as functions of the world *)

\* add_documents that does not save the faiss index after adding to it
add_documents_no_save(w, documents, first, embedOK, saveOK) ==
    IF documents = <<>> THEN [w EXCEPT !.list = <<>>]
    ELSE LET chunks == chunked_docs(documents, first)
         IN  IF w.store_type = "chroma"
             THEN IF Usable(w) /\ embedOK
                  THEN [w EXCEPT !.chromaEntries = @ \o chunks, !.calls = 1,
                                 !.used = Len(chunks), !.list = Ids(chunks)]
                  ELSE [w EXCEPT !.calls = 1, !.raised = TRUE]
             ELSE IF w.vector_store = "FAISS" /\ embedOK
                  THEN [w EXCEPT !.faissMem = @ \o chunks, !.calls = 1,
                                 !.used = Len(chunks), !.list = Ids(chunks)]
                  ELSE [w EXCEPT !.calls = 1, !.raised = TRUE]

\* add_documents without the early return on an empty list
add_documents_no_guard(w, documents, first, embedOK, saveOK) ==
    LET chunks == chunked_docs(documents, first)
    IN  IF w.store_type = "chroma"
        THEN IF Usable(w) /\ embedOK
             THEN [w EXCEPT !.chromaEntries = @ \o chunks, !.calls = 1,
                            !.used = Len(chunks), !.list = Ids(chunks)]
             ELSE [w EXCEPT !.calls = 1, !.raised = TRUE]
        ELSE IF w.vector_store = "FAISS" /\ embedOK
             THEN [w EXCEPT !.faissMem = @ \o chunks, !.used = Len(chunks),
                            !.faissDisk = [saved |-> TRUE, entries |-> w.faissMem \o chunks],
                            !.dirs = @ \cup {"faiss_index"},
                            !.calls = 2, !.list = Ids(chunks)]
             ELSE [w EXCEPT !.calls = 1, !.raised = TRUE]

\* add_documents logging a failure and returning the empty list
add_documents_swallow(w, documents, first, embedOK, saveOK) ==
    IF documents = <<>> THEN [w EXCEPT !.list = <<>>]
    ELSE LET chunks == chunked_docs(documents, first)
         IN  IF w.store_type = "chroma"
             THEN IF Usable(w) /\ embedOK
                  THEN [w EXCEPT !.chromaEntries = @ \o chunks, !.calls = 1,
                                 !.used = Len(chunks), !.list = Ids(chunks)]
                  ELSE [w EXCEPT !.calls = 1, !.list = <<>>]
             ELSE IF w.vector_store = "FAISS" /\ embedOK
                  THEN LET w1 == [w EXCEPT !.faissMem = @ \o chunks, !.calls = 1,
                                           !.used = Len(chunks)]
                       IN  IF saveOK
                           THEN [w1 EXCEPT !.faissDisk = [saved |-> TRUE, entries |-> w1.faissMem],
                                           !.dirs = @ \cup {"faiss_index"},
                                           !.calls = 2, !.list = Ids(chunks)]
                           ELSE [w1 EXCEPT !.calls = 2, !.list = <<>>]
                  ELSE [w EXCEPT !.calls = 1, !.list = <<>>]

\* VectorStore.add_documents; first is the identifier the backend assigns next,
\* embedOK the outcome of vector_store.add_documents, saveOK that of save_local
add_documents(w, documents, first, embedOK, saveOK) ==
    IF documents = <<>> THEN [w EXCEPT !.list = <<>>]
    ELSE LET chunks == chunked_docs(documents, first)
         IN  IF w.store_type = "chroma"
             THEN IF Usable(w) /\ embedOK
                  THEN [w EXCEPT !.chromaEntries = @ \o chunks, !.calls = 1,
                                 !.used = Len(chunks), !.list = Ids(chunks)]
                  ELSE [w EXCEPT !.calls = 1, !.raised = TRUE]
             ELSE IF w.vector_store = "FAISS" /\ embedOK
                  THEN LET w1 == [w EXCEPT !.faissMem = @ \o chunks, !.calls = 1,
                                           !.used = Len(chunks)]
                       IN  IF saveOK
                           THEN [w1 EXCEPT !.faissDisk = [saved |-> TRUE, entries |-> w1.faissMem],
                                           !.dirs = @ \cup {"faiss_index"},
                                           !.calls = 2, !.list = Ids(chunks)]
                           ELSE [w1 EXCEPT !.calls = 2, !.raised = TRUE]
                  ELSE [w EXCEPT !.calls = 1, !.raised = TRUE]

\* similarity_search letting a failed backend search propagate
similarity_search_reraise(w, query, k, filter_metadata, searchOK) ==
    IF w.vector_store = "None" THEN [w EXCEPT !.list = <<>>]
    ELSE IF w.store_type = "chroma"
    THEN IF Usable(w) /\ searchOK
         THEN [w EXCEPT !.calls = 1,
                        !.list = TopK(SelectSeq(w.chromaEntries,
                                                LAMBDA c : Matches(c, filter_metadata)),
                                      query, k)]
         ELSE [w EXCEPT !.calls = 1, !.raised = TRUE]
    ELSE IF searchOK
         THEN [w EXCEPT !.calls = 1,
                        !.list = SelectSeq(TopK(w.faissMem, query, k),
                                           LAMBDA c : Matches(c, filter_metadata))]
         ELSE [w EXCEPT !.calls = 1, !.raised = TRUE]

\* VectorStore.similarity_search; searchOK is the outcome of the backend's search
similarity_search(w, query, k, filter_metadata, searchOK) ==
    IF w.vector_store = "None" THEN [w EXCEPT !.list = <<>>]
    ELSE IF w.store_type = "chroma"
    THEN IF Usable(w) /\ searchOK
         THEN [w EXCEPT !.calls = 1,
                        !.list = TopK(SelectSeq(w.chromaEntries,
                                                LAMBDA c : Matches(c, filter_metadata)),
                                      query, k)]
         ELSE [w EXCEPT !.calls = 1, !.list = <<>>]
    ELSE IF searchOK
         THEN [w EXCEPT !.calls = 1,
                        !.list = SelectSeq(TopK(w.faissMem, query, k),
                                           LAMBDA c : Matches(c, filter_metadata))]
         ELSE [w EXCEPT !.calls = 1, !.list = <<>>]

\* similarity_search_with_score handing the filter to the index, as on chroma
similarity_search_with_score_prefilter(w, query, k, filter_metadata, searchOK) ==
    IF w.vector_store = "None" THEN [w EXCEPT !.list = <<>>]
    ELSE IF Usable(w) /\ searchOK
    THEN [w EXCEPT !.calls = 1,
                   !.list = WithScores(query,
                                TopK(SelectSeq(IF w.store_type = "chroma"
                                               THEN w.chromaEntries ELSE w.faissMem,
                                               LAMBDA c : Matches(c, filter_metadata)),
                                     query, k))]
    ELSE [w EXCEPT !.calls = 1, !.list = <<>>]

\* VectorStore.similarity_search_with_score
similarity_search_with_score(w, query, k, filter_metadata, searchOK) ==
    IF w.vector_store = "None" THEN [w EXCEPT !.list = <<>>]
    ELSE IF w.store_type = "chroma"
    THEN IF Usable(w) /\ searchOK
         THEN [w EXCEPT !.calls = 1,
                        !.list = WithScores(query,
                                     TopK(SelectSeq(w.chromaEntries,
                                                    LAMBDA c : Matches(c, filter_metadata)),
                                          query, k))]
         ELSE [w EXCEPT !.calls = 1, !.list = <<>>]
    ELSE IF searchOK
         THEN [w EXCEPT !.calls = 1,
                        !.list = SelectSeq(WithScores(query, TopK(w.faissMem, query, k)),
                                           LAMBDA r : Matches(r[1], filter_metadata))]
         ELSE [w EXCEPT !.calls = 1, !.list = <<>>]

\* delete_documents reporting success without deleting anything
delete_documents_no_delete(w, doc_ids, delOK) ==
    IF w.store_type = "chroma"
    THEN [w EXCEPT !.calls = 1, !.flag = Usable(w) /\ delOK]
    ELSE [w EXCEPT !.flag = TRUE]

\* VectorStore.delete_documents; doc_ids is the set of identifiers passed
delete_documents(w, doc_ids, delOK) ==
    IF w.store_type = "chroma"
    THEN IF Usable(w) /\ delOK
         THEN [w EXCEPT !.calls = 1, !.flag = TRUE,
                        !.chromaEntries = SelectSeq(@, LAMBDA c : c.id \notin doc_ids)]
         ELSE [w EXCEPT !.calls = 1, !.flag = FALSE]
    ELSE [w EXCEPT !.flag = FALSE]

\* document_count "Unknown"
Unknown == -1

\* get_collection_info making sure the faiss directory is there as it counts
get_collection_info_mkdir(w, countOK) ==
    IF w.store_type = "chroma"
    THEN [w EXCEPT !.count = IF Usable(w) /\ countOK THEN Len(w.chromaEntries) ELSE Unknown,
                   !.dirs = @ \cup {"faiss_index"}]
    ELSE [w EXCEPT !.count = IF w.vector_store = "FAISS" /\ countOK
                             THEN Len(w.faissMem) ELSE Unknown,
                   !.dirs = @ \cup {"faiss_index"}]

\* VectorStore.get_collection_info: the document_count it reports
get_collection_info(w, countOK) ==
    IF w.store_type = "chroma"
    THEN [w EXCEPT !.count = IF Usable(w) /\ countOK THEN Len(w.chromaEntries) ELSE Unknown]
    ELSE [w EXCEPT !.count = IF w.vector_store = "FAISS" /\ countOK
                             THEN Len(w.faissMem) ELSE Unknown]

\* clear_collection removing the whole persist directory on faiss
clear_collection_rmtree_all(w, delOK, err, retryOK, buildOK) ==
    IF w.store_type = "chroma"
    THEN IF Usable(w) /\ delOK
         THEN LET w1 == [w EXCEPT !.chromaColl = FALSE, !.chromaEntries = <<>>, !.calls = 1]
                  w2 == init_chroma(w1, err, retryOK)
              IN  [w2 EXCEPT !.flag = ~w2.raised, !.raised = FALSE]
         ELSE [w EXCEPT !.calls = 1, !.flag = FALSE]
    ELSE LET w1 == [w EXCEPT !.dirs = {}, !.faissDisk = NoIndex,
                             !.chromaColl = FALSE, !.chromaEntries = <<>>]
             w2 == init_faiss(w1, TRUE, buildOK)
         IN  [w2 EXCEPT !.flag = ~w2.raised, !.raised = FALSE]

\* clear_collection re-running the whole backend selection, fallback included
clear_collection_reinit(w, delOK, err, retryOK, buildOK) ==
    IF w.store_type = "chroma"
    THEN IF Usable(w) /\ delOK
         THEN LET w1 == [w EXCEPT !.chromaColl = FALSE, !.chromaEntries = <<>>, !.calls = 1]
                  w2 == initialize_vector_store(w1, err, retryOK, TRUE, buildOK)
              IN  [w2 EXCEPT !.flag = ~w2.raised, !.raised = FALSE]
         ELSE [w EXCEPT !.calls = 1, !.flag = FALSE]
    ELSE LET w1 == [w EXCEPT !.dirs = @ \ {"faiss_index"}, !.faissDisk = NoIndex]
             w2 == init_faiss(w1, TRUE, buildOK)
         IN  [w2 EXCEPT !.flag = ~w2.raised, !.raised = FALSE]

\* clear_collection destroying the persisted entries without reopening the backend
clear_collection_no_reinit(w, delOK, err, retryOK, buildOK) ==
    IF w.store_type = "chroma"
    THEN IF Usable(w) /\ delOK
         THEN [w EXCEPT !.chromaColl = FALSE, !.chromaEntries = <<>>, !.calls = 1,
                        !.flag = TRUE]
         ELSE [w EXCEPT !.calls = 1, !.flag = FALSE]
    ELSE [w EXCEPT !.dirs = @ \ {"faiss_index"}, !.faissDisk = NoIndex,
                   !.vector_store = "None", !.faissMem = <<>>, !.flag = TRUE]

\* VectorStore.clear_collection; delOK is the outcome of delete_collection
clear_collection(w, delOK, err, retryOK, buildOK) ==
    IF w.store_type = "chroma"
    THEN IF Usable(w) /\ delOK
         THEN LET w1 == [w EXCEPT !.chromaColl = FALSE, !.chromaEntries = <<>>, !.calls = 1]
                  w2 == init_chroma(w1, err, retryOK)
              IN  [w2 EXCEPT !.flag = ~w2.raised, !.raised = FALSE]
         ELSE [w EXCEPT !.calls = 1, !.flag = FALSE]
    ELSE LET w1 == [w EXCEPT !.dirs = @ \ {"faiss_index"}, !.faissDisk = NoIndex]
             w2 == init_faiss(w1, TRUE, buildOK)
         IN  [w2 EXCEPT !.flag = ~w2.raised, !.raised = FALSE]

----------------------------------------------------------------------------
(* RAGRetrievalTool: the structured retrieval entry point and its rendering *)

\* f"{score:.4f}"
Score4f(s) == IF s = 0 THEN "0.0000" ELSE "1.0000"

NoDocumentsLine(query) == <<"No documents found for query: '", query, "'">>

RECURSIVE Blocks(_, _)
Blocks(results, i) ==
    IF i > Len(results) THEN <<>>
    ELSE <<"--- Document ", Str(i), " ---", "Content: ", results[i].text>>
           \o Blocks(results, i + 1)

RECURSIVE ScoredBlocks(_, _)
ScoredBlocks(results, i) ==
    IF i > Len(results) THEN <<>>
    ELSE <<"--- Document ", Str(i), " (Score: ", Score4f(results[i][2]), ") ---",
           "Content: ", results[i][1].text>>
           \o ScoredBlocks(results, i + 1)

\* RAGRetrievalTool._format_results
format_results(results, query) ==
    IF results = <<>> THEN NoDocumentsLine(query)
    ELSE <<"Found ", Str(Len(results)), " relevant documents for query: '", query, "'">>
           \o Blocks(results, 1)

\* RAGRetrievalTool._format_scored_results
format_scored_results(results, query) ==
    IF results = <<>> THEN NoDocumentsLine(query)
    ELSE <<"Found ", Str(Len(results)), " relevant documents for query: '", query,
           "' (with relevance scores)">> \o ScoredBlocks(results, 1)

\* f"Error retrieving documents: {e}"
ErrorRetrieving == <<"Error retrieving documents: ", "exception">>

\* the string a retrieval returns for the outcome r of its search
Retrieved(r, query, with_scores) ==
    IF r.raised THEN [r EXCEPT !.raised = FALSE, !.text = ErrorRetrieving]
    ELSE IF with_scores THEN [r EXCEPT !.text = format_scored_results(r.list, query)]
    ELSE [r EXCEPT !.text = format_results(r.list, query)]

\* RAGRetrievalTool._retrieve_documents_structured; search is the call it issues
retrieve_documents_structured(w, query, k, with_scores, filter_metadata, searchOK) ==
    Retrieved(IF with_scores
              THEN similarity_search_with_score(
                       [w EXCEPT !.search = <<with_scores, query, k, filter_metadata>>],
                       query, k, filter_metadata, searchOK)
              ELSE similarity_search(
                       [w EXCEPT !.search = <<with_scores, query, k, filter_metadata>>],
                       query, k, filter_metadata, searchOK),
              query, with_scores)

\* RAGRetrievalTool._parse_input, the loop over the parts
RECURSIVE ParseParts(_, _)
ParseParts(parts, params) ==
    IF parts = <<>> THEN params
    ELSE LET part == Head(parts)
             kv == split1(part, ":")
         IN  ParseParts(Tail(parts),
                 IF has(part, ":")
                 THEN Update(params, [key \in {strip(kv[1])} |-> strip(kv[2])])
                 ELSE IF "query" \notin DOMAIN params
                 THEN Update(params, [key \in {"query"} |-> strip(part)])
                 ELSE params)

\* RAGRetrievalTool._parse_input
parse_input(input_str) ==
    IF has(input_str, "|") THEN ParseParts(split(input_str, "|"), NoMeta)
    ELSE [key \in {"query"} |-> strip(input_str)]

RECURSIVE ParsePairs(_, _)
ParsePairs(pairs, filter_metadata) ==
    IF pairs = <<>> THEN filter_metadata
    ELSE LET kv == split1(Head(pairs), "=")
         IN  ParsePairs(Tail(pairs),
                 IF has(Head(pairs), "=")
                 THEN Update(filter_metadata, [key \in {strip(kv[1])} |-> strip(kv[2])])
                 ELSE filter_metadata)

\* RAGRetrievalTool._parse_filter
parse_filter(filter_str) ==
    IF filter_str = "" THEN NoFilter ELSE ParsePairs(split(filter_str, ","), NoFilter)

\* params.get(key, default)
Get(params, key, default) == IF key \in DOMAIN params THEN params[key] ELSE default

\* the legacy entry point as it would be if it dropped the k label
RetrieveParsedDefaultK(w, params, input_str, searchOK) ==
    retrieve_documents_structured(
        w, Get(params, "query", strip(input_str)), 5,
        str_lower(Get(params, "with_scores", "false")) = "true",
        IF Get(params, "filter", "") # "" THEN parse_filter(Get(params, "filter", ""))
        ELSE NoFilter,
        searchOK)

\* RAGRetrievalTool._retrieve_documents once params is known; int(...) of a k
\* that is no integer raises inside the try
RetrieveParsed(w, params, input_str, searchOK) ==
    IF "k" \in DOMAIN params /\ ~IsInt(params["k"])
    THEN [w EXCEPT !.text = ErrorRetrieving]
    ELSE retrieve_documents_structured(
             w, Get(params, "query", strip(input_str)),
             IF "k" \in DOMAIN params THEN int(params["k"]) ELSE 5,
             str_lower(Get(params, "with_scores", "false")) = "true",
             IF Get(params, "filter", "") # "" THEN parse_filter(Get(params, "filter", ""))
             ELSE NoFilter,
             searchOK)

\* RAGRetrievalTool._retrieve_documents: the legacy string entry point
retrieve_documents(w, input_str, searchOK) ==
    RetrieveParsed(w, parse_input(input_str), input_str, searchOK)

----------------------------------------------------------------------------
(* RAGRetrievalTool: ingestion and administration.  e holds the outcomes of *)
(* the library calls an operation makes, fs the file system it reads.       *)

RECURSIVE ProcessFiles(_, _, _)
ProcessFiles(fs, file_paths, loadOK) ==
    IF file_paths = <<>> THEN <<>>
    ELSE process_file(fs, Head(file_paths), NoMeta, loadOK)
           \o ProcessFiles(fs, Tail(file_paths), loadOK)

\* an ingestion without its try/except: the exception reaches the caller
ReplyNoCatch(r, error, success) ==
    IF r.raised THEN r ELSE [r EXCEPT !.text = success]

\* the string an ingestion returns: the except branch or the success line
Reply(r, error, success) ==
    IF r.raised THEN [r EXCEPT !.raised = FALSE, !.text = error]
    ELSE [r EXCEPT !.text = success]

\* self.vector_store.add_documents(valid_docs) as the tools call it
Ingest(w, valid_docs, first, e) ==
    add_documents([w EXCEPT !.proc = @ + 1, !.adds = @ + 1, !.handed = valid_docs],
                  valid_docs, first, e.embedOK, e.saveOK)

\* add_documents_from_files once valid_docs is known
AddValidFiles(w, valid_docs, file_paths, first, e) ==
    Reply(Ingest(w, valid_docs, first, e),
          <<"Error adding documents from files: ", "exception">>,
          <<"Successfully added ", Str(Len(valid_docs)), " documents from ",
            Str(Len(file_paths)), " files to knowledge base.">>)

\* add_documents_from_files once all_documents is known
AddProcessedFiles(w, all_documents, file_paths, first, e) ==
    IF all_documents # <<>>
    THEN AddValidFiles(w, validate_documents(all_documents), file_paths, first, e)
    ELSE [w EXCEPT !.text = <<"No valid documents found in the provided files.">>]

\* RAGRetrievalTool.add_documents_from_files
add_documents_from_files(w, fs, file_paths, first, e) ==
    AddProcessedFiles([w EXCEPT !.proc = @ + Len(file_paths), !.arg = file_paths],
                      ProcessFiles(fs, file_paths, e.loadOK), file_paths, first, e)

\* add_documents_from_directory once valid_docs is known
AddValidDirectory(w, valid_docs, directory_path, first, e) ==
    Reply(Ingest(w, valid_docs, first, e),
          <<"Error adding documents from directory: ", "exception">>,
          <<"Successfully added ", Str(Len(valid_docs)), " documents from directory '",
            directory_path, "' to knowledge base.">>)

\* add_documents_from_directory once documents is known
AddProcessedDirectory(w, documents, directory_path, first, e) ==
    IF documents # <<>>
    THEN AddValidDirectory(w, validate_documents(documents), directory_path, first, e)
    ELSE [w EXCEPT !.text = <<"No valid documents found in directory '",
                             directory_path, "'.">>]

\* RAGRetrievalTool.add_documents_from_directory
add_documents_from_directory(w, fs, directory_path, recursive, file_patterns, first, e) ==
    AddProcessedDirectory([w EXCEPT !.proc = @ + 1, !.arg = directory_path],
                          process_directory(fs, directory_path, recursive, file_patterns,
                                            e.loadOK),
                          directory_path, first, e)

\* the success line of add_text_document
TextAdded(document) ==
    <<"Successfully added text document to knowledge base (ID: ", DocId(document), ").">>

\* add_text_document once document is known: no validate_documents here
AddProcessedText(w, document, first, e) ==
    Reply(Ingest(w, <<document>>, first, e),
          <<"Error adding text document: ", "exception">>, TextAdded(document))

\* RAGRetrievalTool.add_text_document
add_text_document(w, text, metadata, first, e) ==
    AddProcessedText([w EXCEPT !.arg = text], process_text(text, metadata), first, e)

\* RAGRetrievalTool.get_collection_info: the lines of store_type and document_count
InfoLines(r) ==
    [r EXCEPT !.text = <<"Vector Store Information:", "- Store Type: ", r.store_type,
                        "- Document Count: ",
                        IF r.count = Unknown THEN "Unknown" ELSE Str(r.count)>>]

rag_get_collection_info(w, e) == InfoLines(get_collection_info(w, e.countOK))

\* RAGRetrievalTool.clear_knowledge_base
Cleared(r) ==
    IF r.flag
    THEN [r EXCEPT !.text = <<"Successfully cleared all documents from knowledge base.">>]
    ELSE [r EXCEPT !.text = <<"Failed to clear knowledge base.">>]

clear_knowledge_base(w, e) ==
    Cleared(clear_collection(w, e.delOK, e.err, e.retryOK, e.buildOK))

----------------------------------------------------------------------------
(* RAGManagementTool *)

\* not x, for an optional string
Falsy(x) == x = None \/ x = ""

UnknownAction(action) ==
    <<"Unknown action: ", action,
      ". Available actions: add_file, add_files, add_directory, add_text, info, clear">>

InvalidAction ==
    <<"Invalid action. Use 'info' or 'clear', or specify action:parameters format.">>

PathRequired(action) == <<"Error: path parameter required for ", action, " action">>

ContentRequired == <<"Error: content parameter required for add_text action">>

\* [f.strip() for f in path.split(',')]
StripAll(items) == [i \in 1..Len(items) |-> strip(items[i])]

\* RAGManagementTool._manage_rag_structured
DispatchStructured(w, fs, action, path, content, title, recursive, patterns, first, e) ==
    CASE action = "info" -> rag_get_collection_info([w EXCEPT !.invoked = "info"], e)
      [] action = "clear" -> clear_knowledge_base([w EXCEPT !.invoked = "clear"], e)
      [] action = "add_file" ->
            IF Falsy(path) THEN [w EXCEPT !.text = PathRequired("add_file")]
            ELSE add_documents_from_files([w EXCEPT !.invoked = "add_file"], fs,
                                          <<path>>, first, e)
      [] action = "add_files" ->
            IF Falsy(path) THEN [w EXCEPT !.text = PathRequired("add_files")]
            ELSE add_documents_from_files([w EXCEPT !.invoked = "add_files"], fs,
                                          StripAll(split(path, ",")), first, e)
      [] action = "add_directory" ->
            IF Falsy(path) THEN [w EXCEPT !.text = PathRequired("add_directory")]
            ELSE add_documents_from_directory([w EXCEPT !.invoked = "add_directory"],
                                              fs, path, recursive, patterns, first, e)
      [] action = "add_text" ->
            IF Falsy(content) THEN [w EXCEPT !.text = ContentRequired]
            ELSE add_text_document([w EXCEPT !.invoked = "add_text"], content,
                                   IF Falsy(title) THEN NoMeta
                                   ELSE [key \in {"title"} |-> title],
                                   first, e)
      [] OTHER -> [w EXCEPT !.text = UnknownAction(action)]

manage_rag_structured(w, fs, action_arg, path, content, title, recursive, patterns, first, e) ==
    DispatchStructured(w, fs, strip(str_lower(action_arg)), path, content, title,
                       recursive, patterns, first, e)

\* RAGManagementTool._parse_directory_params, the loop over parts[1:]
RECURSIVE DirectoryParts(_, _)
DirectoryParts(parts, params) ==
    IF parts = <<>> THEN params
    ELSE LET kv == split1(Head(parts), ":")
             key == strip(kv[1])
         IN  DirectoryParts(Tail(parts),
                 IF ~has(Head(parts), ":") THEN params
                 ELSE IF key = "recursive"
                 THEN [params EXCEPT !.recursive = str_lower(strip(kv[2])) = "true"]
                 ELSE IF key = "patterns"
                 THEN [params EXCEPT !.patterns = StripAll(split(strip(kv[2]), ","))]
                 ELSE params)

\* RAGManagementTool._parse_directory_params; recursive and patterns hold the
\* defaults _manage_rag reads with params.get
parse_directory_params(params_str) ==
    LET params == [directory |-> strip(params_str), recursive |-> TRUE, patterns |-> <<>>]
        parts == split(params_str, "|")
    IN  IF has(params_str, "|")
        THEN DirectoryParts(Tail(parts), [params EXCEPT !.directory = strip(parts[1])])
        ELSE params

RECURSIVE TextParts(_, _)
TextParts(parts, params) ==
    IF parts = <<>> THEN params
    ELSE LET kv == split1(Head(parts), ":")
         IN  TextParts(Tail(parts),
                 IF has(Head(parts), ":")
                 THEN Update(params, [key \in {strip(kv[1])} |-> strip(kv[2])])
                 ELSE params)

\* RAGManagementTool._parse_text_params
parse_text_params(params_str) ==
    LET parts == split(params_str, "|")
    IN  IF has(params_str, "|")
        THEN TextParts(Tail(parts), [key \in {"text"} |-> strip(parts[1])])
        ELSE [key \in {"text"} |-> strip(params_str)]

\* the add_directory branch of _manage_rag once params is known
AddDirectoryParsed(w, fs, params, first, e) ==
    add_documents_from_directory(w, fs, params.directory, params.recursive,
                                 params.patterns, first, e)

\* the add_text branch of _manage_rag once params is known
AddTextParsed(w, params, first, e) ==
    add_text_document(w, params["text"],
                      IF "title" \in DOMAIN params
                      THEN [key \in {"title"} |-> params["title"]] ELSE NoMeta,
                      first, e)

\* _manage_rag on an input with a colon, split into action and params_str
Dispatch(w, fs, action, params_str, first, e) ==
    CASE action = "add_file" ->
            add_documents_from_files([w EXCEPT !.invoked = "add_file"], fs,
                                     <<strip(params_str)>>, first, e)
      [] action = "add_files" ->
            add_documents_from_files([w EXCEPT !.invoked = "add_files"], fs,
                                     StripAll(split(params_str, ",")), first, e)
      [] action = "add_directory" ->
            AddDirectoryParsed([w EXCEPT !.invoked = "add_directory"], fs,
                               parse_directory_params(params_str), first, e)
      [] action = "add_text" ->
            AddTextParsed([w EXCEPT !.invoked = "add_text"],
                          parse_text_params(params_str), first, e)
      [] OTHER -> [w EXCEPT !.text = UnknownAction(action)]

\* RAGManagementTool._manage_rag: the legacy string entry point
manage_rag(w, fs, input_str, first, e) ==
    IF ~has(input_str, ":")
    THEN IF str_lower(strip(input_str)) = "info"
         THEN rag_get_collection_info([w EXCEPT !.invoked = "info"], e)
         ELSE IF str_lower(strip(input_str)) = "clear"
         THEN clear_knowledge_base([w EXCEPT !.invoked = "clear"], e)
         ELSE [w EXCEPT !.text = InvalidAction]
    ELSE Dispatch(w, fs, str_lower(strip(split1(input_str, ":")[1])),
                  split1(input_str, ":")[2], first, e)

----------------------------------------------------------------------------
(* The state machine *)

NoCall ==
    [op |-> "none", raised |-> FALSE, fault |-> FALSE, req |-> "", setupOK |-> TRUE,
     err |-> "none", retryOK |-> TRUE, docs |-> <<>>, query |-> "", k |-> 0, filter |-> NoFilter, scored |-> FALSE,
     list |-> <<>>, flag |-> FALSE, count |-> 0, text |-> <<>>, calls |-> 0,
     opens |-> 0, resets |-> 0, chromaFailed |-> FALSE, faissFailed |-> FALSE,
     ids |-> {}]

\* what a finished call leaves in last
Called(op, w, fault) ==
    [NoCall EXCEPT !.op = op, !.raised = w.raised, !.fault = fault, !.list = w.list,
                   !.flag = w.flag, !.count = w.count, !.text = w.text,
                   !.calls = w.calls, !.opens = w.opens, !.resets = w.resets,
                   !.chromaFailed = w.chromaFailed, !.faissFailed = w.faissFailed]

\* the object and the directory after a call
Apply(w) ==
    /\ store_type' = w.store_type
    /\ vector_store' = w.vector_store
    /\ faissMem' = w.faissMem
    /\ chromaColl' = w.chromaColl
    /\ chromaEntries' = w.chromaEntries
    /\ faissDisk' = w.faissDisk
    /\ dirs' = w.dirs
    /\ nextId' = nextId + w.used

Init ==
    /\ phase = "uninit"
    /\ origin = "none"
    /\ store_type = ""
    /\ vector_store = "None"
    /\ faissMem = <<>>
    /\ chromaColl = FALSE
    /\ chromaEntries = <<>>
    /\ faissDisk = NoIndex
    /\ dirs = {}
    /\ nextId = 1
    /\ last = NoCall

\* VectorStore.__init__; setupOK is the outcome of loading the embedding model
Construct(req, setupOK, err, retryOK, loadOK, buildOK) ==
    \* load_local has an outcome of its own only when there is an index to load
    /\ ~faissDisk.saved => loadOK
    /\ LET w0 == [World EXCEPT !.store_type = lower(req), !.vector_store = "None",
                               !.faissMem = <<>>]
           w  == IF setupOK
                 THEN initialize_vector_store(w0, err, retryOK, loadOK, buildOK)
                 ELSE [w0 EXCEPT !.raised = TRUE]
       IN  /\ Apply(w)
           /\ phase' = IF w.raised THEN "failed" ELSE "ready"
           /\ origin' = IF w.raised THEN "none"
                        ELSE IF w.chromaFailed
                        THEN IF w.resets > 0 THEN "schema_fallback" ELSE "fallback"
                        ELSE IF w.resets > 0 THEN "retry" ELSE "direct"
           /\ last' = [Called("construct", w,
                               ~setupOK \/ err # "none" \/ ~loadOK \/ ~buildOK)
                          EXCEPT !.req = req, !.setupOK = setupOK, !.err = err,
                                 !.retryOK = retryOK]

AddDocuments(documents, embedOK, saveOK) ==
    /\ phase = "ready"
    /\ nextId + Len(chunked_docs(documents, nextId)) - 1 <= MaxIds
    \* the outcome of a library call that is not made stays at its default
    /\ (documents = <<>> \/ vector_store = "None") => embedOK
    /\ (documents = <<>> \/ store_type = "chroma" \/ vector_store = "None") => saveOK
    /\ \E w \in {add_documents(World, documents, nextId, embedOK, saveOK)} :
           /\ Apply(w)
           /\ last' = [Called("add", w, ~embedOK \/ ~saveOK) EXCEPT !.docs = documents]
    /\ UNCHANGED <<phase, origin>>

SimilaritySearch(query, k, filter_metadata, searchOK) ==
    /\ phase = "ready"
    /\ vector_store = "None" => searchOK
    /\ \E w \in {similarity_search(World, query, k, filter_metadata, searchOK)} :
           /\ Apply(w)
           /\ last' = [Called("search", w, ~searchOK) EXCEPT !.query = query, !.k = k,
                                                    !.filter = filter_metadata]
    /\ UNCHANGED <<phase, origin>>

SimilaritySearchWithScore(query, k, filter_metadata, searchOK) ==
    /\ phase = "ready"
    /\ vector_store = "None" => searchOK
    /\ \E w \in {similarity_search_with_score(World, query, k, filter_metadata, searchOK)} :
           /\ Apply(w)
           /\ last' = [Called("search_with_score", w, ~searchOK)
                          EXCEPT !.query = query, !.k = k, !.filter = filter_metadata,
                                 !.scored = TRUE]
    /\ UNCHANGED <<phase, origin>>

DeleteDocuments(doc_ids, delOK) ==
    /\ phase = "ready"
    /\ store_type = "faiss" => delOK
    /\ \E w \in {delete_documents(World, doc_ids, delOK)} :
           /\ Apply(w)
           /\ last' = [Called("delete", w, ~delOK) EXCEPT !.ids = doc_ids]
    /\ UNCHANGED <<phase, origin>>

GetCollectionInfo(countOK) ==
    /\ phase = "ready"
    /\ \E w \in {get_collection_info(World, countOK)} :
           /\ Apply(w)
           /\ last' = Called("info", w, ~countOK)
    /\ UNCHANGED <<phase, origin>>

ClearCollection(delOK, err, retryOK, buildOK) ==
    /\ phase = "ready"
    /\ IF store_type = "chroma" THEN buildOK ELSE delOK /\ err = "none"
    /\ \E w \in {clear_collection(World, delOK, err, retryOK, buildOK)} :
           /\ Apply(w)
           /\ last' = [Called("clear", w, ~delOK \/ err # "none" \/ ~buildOK)
                          EXCEPT !.err = err, !.retryOK = retryOK]
    /\ UNCHANGED <<phase, origin>>

Retrieve(query, k, with_scores, filter_metadata, searchOK) ==
    /\ phase = "ready"
    /\ vector_store = "None" => searchOK
    /\ \E w \in {retrieve_documents_structured(World, query, k, with_scores,
                                              filter_metadata, searchOK)} :
           /\ Apply(w)
           /\ last' = [Called("retrieve", w, ~searchOK)
                          EXCEPT !.query = query, !.k = k, !.filter = filter_metadata,
                                 !.scored = with_scores]
    /\ UNCHANGED <<phase, origin>>

\* the identifier lists delete_documents is called with: one identifier, or all
IdSets == {{i} : i \in 1..MaxIds} \cup {1..MaxIds}

\* the outcomes of the two library calls of add_documents (save_local follows
\* a successful vector_store.add_documents only)
AddArgs == {i \in [embedOK : BOOLEAN, saveOK : BOOLEAN] : ~i.embedOK => i.saveOK}

\* the constructor's arguments and the outcomes of the library calls it makes;
\* an outcome of a call the constructor does not reach is left at its default
ConstructArgs ==
    {i \in [req : StoreTypeArgs, setupOK : BOOLEAN, err : ChromaErrors,
            retryOK : BOOLEAN, loadOK : BOOLEAN, buildOK : BOOLEAN] :
        LET chromaRaises == i.err # "none" /\ ~(IsSchemaMismatch(i.err) /\ i.retryOK)
            reachesChroma == i.setupOK /\ lower(i.req) = "chroma"
            reachesFaiss == i.setupOK /\ (lower(i.req) = "faiss"
                                          \/ (reachesChroma /\ chromaRaises))
        IN  /\ ~reachesChroma => i.err = "none"
            /\ ~(reachesChroma /\ IsSchemaMismatch(i.err)) => i.retryOK
            /\ ~reachesFaiss => i.loadOK /\ i.buildOK}

\* the outcomes of the library calls of clear_collection, with the same convention
ClearArgs ==
    {i \in [delOK : BOOLEAN, err : ChromaErrors, retryOK : BOOLEAN, buildOK : BOOLEAN] :
        /\ ~i.delOK => i.err = "none"
        /\ ~IsSchemaMismatch(i.err) => i.retryOK}

Next ==
    \/ \E i \in ConstructArgs :
          Construct(i.req, i.setupOK, i.err, i.retryOK, i.loadOK, i.buildOK)
    \/ \E documents \in DocLists, i \in AddArgs :
          AddDocuments(documents, i.embedOK, i.saveOK)
    \/ \E a \in SearchArgs, searchOK \in BOOLEAN :
          SimilaritySearch(a[1], a[2], a[3], searchOK)
    \/ \E a \in SearchArgs, searchOK \in BOOLEAN :
          SimilaritySearchWithScore(a[1], a[2], a[3], searchOK)
    \/ \E doc_ids \in IdSets, delOK \in BOOLEAN : DeleteDocuments(doc_ids, delOK)
    \/ \E countOK \in BOOLEAN : GetCollectionInfo(countOK)
    \/ \E i \in ClearArgs : ClearCollection(i.delOK, i.err, i.retryOK, i.buildOK)
    \/ \E a \in SearchArgs, with_scores \in BOOLEAN, searchOK \in BOOLEAN :
          Retrieve(a[1], a[2], with_scores, a[3], searchOK)

Spec == Init /\ [][Next]_vars

----------------------------------------------------------------------------
(* The DocumentProcessor on its own: calls in sequence, the last two kept *)

TextArgs == {"ta", "zz", "", "  "}

MetaArgs == {NoMeta, [key \in {"title"} |-> "T"], [key \in {"doc_id"} |-> "id_a"]}

\* the file systems of the model: what a.txt, c.txt and x.bin hold
FileSystems ==
    {[p \in {"a.txt", "c.txt", "x.bin"} |->
         CASE p = "a.txt" -> a [] p = "c.txt" -> c [] p = "x.bin" -> "ta"] :
     a \in {"ta", "zz", Absent}, c \in {"ta", ""}}

PathArgs == {"a.txt", "c.txt", "x.bin", "nodir", ""}

NoProcCall ==
    [op |-> "none", arg |-> "", content |-> Absent, metadata |-> NoMeta, docs |-> <<>>]

\* a call of the processor, with the call before it
ProcCalled(op, arg, content, metadata, docs) ==
    [op |-> op, arg |-> arg, content |-> content, metadata |-> metadata, docs |-> docs,
     prev |-> [op |-> last.op, arg |-> last.arg, content |-> last.content,
               metadata |-> last.metadata, docs |-> last.docs]]

ProcInit ==
    /\ phase = "uninit" /\ origin = "none" /\ store_type = "" /\ vector_store = "None"
    /\ faissMem = <<>> /\ chromaColl = FALSE /\ chromaEntries = <<>>
    /\ faissDisk = NoIndex /\ dirs = {} /\ nextId = 1
    /\ last = [NoProcCall EXCEPT !.op = "none"] @@ [prev |-> NoProcCall]

StoreUnchanged ==
    UNCHANGED <<phase, origin, store_type, vector_store, faissMem, chromaColl,
                chromaEntries, faissDisk, dirs, nextId>>

ProcessText(text, metadata) ==
    /\ last' = ProcCalled("process_text", text, text, metadata,
                          <<process_text(text, metadata)>>)
    /\ StoreUnchanged

ProcessFile(fs, file_path, metadata, loadOK) ==
    /\ last' = ProcCalled("process_file", file_path, At(fs, file_path), metadata,
                          process_file(fs, file_path, metadata, loadOK))
    /\ StoreUnchanged

ProcessDirectory(fs, directory_path, recursive, file_patterns, loadOK) ==
    /\ last' = ProcCalled("process_directory", directory_path, At(fs, directory_path),
                          NoMeta,
                          process_directory(fs, directory_path, recursive,
                                            file_patterns, loadOK))
    /\ StoreUnchanged

ValidateDocuments(documents) ==
    /\ last' = ProcCalled("validate_documents", "", Absent, NoMeta,
                          validate_documents(documents))
    /\ StoreUnchanged

ProcNext ==
    \/ \E text \in TextArgs, metadata \in MetaArgs : ProcessText(text, metadata)
    \/ \E fs \in FileSystems, file_path \in PathArgs,
          metadata \in {NoMeta, [key \in {"title"} |-> "T"]}, loadOK \in BOOLEAN :
          ProcessFile(fs, file_path, metadata, loadOK)
    \/ \E fs \in FileSystems, directory_path \in {"", "nodir"},
          file_patterns \in {<<>>, <<"*.txt">>} :
          ProcessDirectory(fs, directory_path, TRUE, file_patterns, TRUE)
    \/ \E documents \in {<<DocN>>, <<Document("  ", NoMeta), DocA>>} :
          ValidateDocuments(documents)

ProcSpec == ProcInit /\ [][ProcNext]_vars

----------------------------------------------------------------------------
(* The DocumentProcessor reading files that can fail: every call with the   *)
(* file system it saw and the outcomes of the system calls it made          *)

\* the file systems of the scans: a.txt and c.txt can be unreadable
ScanFileSystems ==
    {[p \in {"a.txt", "c.txt", "x.bin"} |->
         CASE p = "a.txt" -> a [] p = "c.txt" -> c [] p = "x.bin" -> "ta"] :
     a \in {"ta", Unreadable, Absent}, c \in {"ta", "zz", Unreadable}}

NoScan ==
    [op |-> "none", arg |-> "", fs |-> [p \in {"a.txt", "c.txt", "x.bin"} |-> Absent],
     patterns |-> <<>>, loadOK |-> TRUE, ok |-> TRUE, raised |-> FALSE, docs |-> <<>>]

ScanInit ==
    /\ phase = "uninit" /\ origin = "none" /\ store_type = "" /\ vector_store = "None"
    /\ faissMem = <<>> /\ chromaColl = FALSE /\ chromaEntries = <<>>
    /\ faissDisk = NoIndex /\ dirs = {} /\ nextId = 1
    /\ last = NoScan

\* a call of process_file as its caller sees it
ScanFile(fs, file_path, loadOK, statOK) ==
    /\ \E r \in {Caught(process_file_try(fs, file_path, NoMeta, loadOK, statOK))} :
          last' = [NoScan EXCEPT !.op = "process_file", !.arg = file_path, !.fs = fs,
                                 !.loadOK = loadOK, !.ok = statOK,
                                 !.raised = r.raised, !.docs = r.docs]
    /\ StoreUnchanged

\* a call of process_directory as its caller sees it
ScanDirectory(fs, directory_path, file_patterns, listOK) ==
    /\ \E r \in {Caught(process_directory_try(fs, directory_path, TRUE, file_patterns,
                                               TRUE, listOK))} :
          last' = [NoScan EXCEPT !.op = "process_directory", !.arg = directory_path,
                                 !.fs = fs, !.patterns = file_patterns, !.ok = listOK,
                                 !.raised = r.raised, !.docs = r.docs]
    /\ StoreUnchanged

ScanNext ==
    \/ \E fs \in ScanFileSystems, file_path \in PathArgs, loadOK, statOK \in BOOLEAN :
          ScanFile(fs, file_path, loadOK, statOK)
    \/ \E fs \in ScanFileSystems, directory_path \in {"", "nodir"},
          file_patterns \in {<<>>, <<"*.txt">>}, listOK \in BOOLEAN :
          ScanDirectory(fs, directory_path, file_patterns, listOK)

ScanSpec == ScanInit /\ [][ScanNext]_vars

----------------------------------------------------------------------------
(* The tools over one VectorStore: every entry point of RAGRetrievalTool    *)
(* and RAGManagementTool as an action                                        *)

\* the outcomes of the library calls of one tool call
AllOK ==
    [loadOK |-> TRUE, embedOK |-> TRUE, saveOK |-> TRUE, countOK |-> TRUE,
     delOK |-> TRUE, err |-> "none", retryOK |-> TRUE, buildOK |-> TRUE]

AddEnvs == {AllOK, [AllOK EXCEPT !.loadOK = FALSE], [AllOK EXCEPT !.embedOK = FALSE]}

InfoEnvs == {AllOK, [AllOK EXCEPT !.countOK = FALSE]}

ClearEnvs == {AllOK, [AllOK EXCEPT !.delOK = FALSE], [AllOK EXCEPT !.buildOK = FALSE],
              [AllOK EXCEPT !.err = "permission denied"]}

\* a management request reaches one Vector Store operation: either every
\* library call of it succeeds or the first one it makes fails
ManageEnvs ==
    {AllOK, [AllOK EXCEPT !.embedOK = FALSE, !.countOK = FALSE, !.delOK = FALSE,
                          !.buildOK = FALSE]}

\* the typed fields of the structured retrieval entry point
StructArgs ==
    {[query |-> "ta", k |-> 1, with_scores |-> FALSE, filter_metadata |-> NoFilter],
     [query |-> "zz", k |-> 2, with_scores |-> TRUE, filter_metadata |-> FilterA],
     [query |-> " ta", k |-> 1, with_scores |-> FALSE, filter_metadata |-> NoFilter],
     [query |-> "a:b", k |-> 1, with_scores |-> FALSE, filter_metadata |-> NoFilter],
     [query |-> "ta", k |-> 1, with_scores |-> FALSE,
      filter_metadata |-> [key \in {"doc_id"} |-> " id_a"]]}

\* inputs of the legacy retrieval entry point
LegacyQueries ==
    {"ta", "zz|k:2|with_scores:true|filter:doc_id=id_a", " ta|k:1|with_scores:false",
     "a:b|k:1|with_scores:false", "ta|k:1|with_scores:false", "ta|query:zz", "ta|k:x"}

\* the typed fields of the structured management entry point
Request(action, path, content, title) ==
    [action |-> action, path |-> path, content |-> content, title |-> title,
     recursive |-> TRUE, patterns |-> <<>>]

StructRequests ==
    {Request("info", None, None, None), Request("INFO", None, None, None),
     Request("clear", None, None, None), Request("bogus", None, None, None),
     Request("add_file", "a.txt", None, None), Request("add_file", None, None, None),
     Request("add_files", "a.txt,c.txt", None, None), Request("add_files", "", None, None),
     Request("add_directory", ".", None, None), Request("add_directory", None, None, None),
     Request("add_text", None, "ta", "T"), Request("add_text", None, "", "T"),
     Request("add_text", None, "  ", None), Request("add_text", None, None, None)}

\* inputs of the legacy management entry point
LegacyRequests ==
    {"info", "INFO", "clear", "info:", "bogus", "bogus:ta",
     "add_file:a.txt", "add_file:", "add_file:a.txt|k:1", "add_files:a.txt,c.txt",
     "add_directory:.", "add_directory:",
     "add_directory:.|recursive:false|patterns:*.txt",
     "add_text:ta|title:T", "add_text:", "add_text:ta|text:zz", "add_text:  "}

\* the file system the tools read: a text file, an empty one, an unsupported one
ToolFileSystems == {fs \in FileSystems : fs["a.txt"] = "ta" /\ fs["c.txt"] = ""}

NoToolCall ==
    [op |-> "none", input |-> <<>>, text |-> <<>>, raised |-> FALSE, handed |-> <<>>,
     adds |-> 0, proc |-> 0, invoked |-> "none", arg |-> None, search |-> <<>>,
     before |-> 0, after |-> 0]

\* what a finished tool call leaves in last; before and after are the
\* document counts around it
ToolCalled(op, input, w) ==
    [op |-> op, input |-> input, text |-> w.text, raised |-> w.raised,
     handed |-> w.handed, adds |-> w.adds, proc |-> w.proc, invoked |-> w.invoked,
     arg |-> w.arg, search |-> w.search,
     before |-> get_collection_info(World, TRUE).count,
     after |-> get_collection_info(w, TRUE).count]

\* a tool call that took the world to w
ToolStep(op, input, w) ==
    /\ phase = "ready"
    /\ nextId + w.used - 1 <= MaxIds
    /\ Apply(w)
    /\ last' = ToolCalled(op, input, w)
    /\ UNCHANGED <<phase, origin>>

\* RAGRetrievalTool.__init__ done, on faiss (its default) or on chroma
ToolInit ==
    /\ phase = "ready" /\ origin = "direct" /\ nextId = 1
    /\ chromaEntries = <<>> /\ faissDisk = NoIndex
    /\ last = NoToolCall
    /\ \/ /\ store_type = "faiss" /\ vector_store = "FAISS"
          /\ faissMem = <<dummy_doc>> /\ chromaColl = FALSE /\ dirs = {"faiss_index"}
       \/ /\ store_type = "chroma" /\ vector_store = "Chroma"
          /\ faissMem = <<>> /\ chromaColl = TRUE /\ dirs = {"chroma"}

RetrieveStructured ==
    /\ phase = "ready"
    /\ \E a \in StructArgs, searchOK \in BOOLEAN :
          \E w \in {retrieve_documents_structured(World, a.query, a.k, a.with_scores,
                                                  a.filter_metadata, searchOK)} :
              ToolStep("retrieve_structured", a, w)

RetrieveLegacy ==
    /\ phase = "ready"
    /\ \E input_str \in LegacyQueries, searchOK \in BOOLEAN :
          \E w \in {retrieve_documents(World, input_str, searchOK)} :
              ToolStep("retrieve", input_str, w)

AddFromFiles ==
    /\ phase = "ready"
    /\ \E fs \in ToolFileSystems,
          file_paths \in {<<"a.txt">>, <<"c.txt">>, <<"c.txt", "a.txt">>},
          e \in AddEnvs :
          \E w \in {add_documents_from_files(World, fs, file_paths, nextId, e)} :
              ToolStep("add_documents_from_files", file_paths, w)

AddFromDirectory ==
    /\ phase = "ready"
    /\ \E fs \in ToolFileSystems, directory_path \in {".", "nodir"}, e \in AddEnvs :
          \E w \in {add_documents_from_directory(World, fs, directory_path, TRUE, <<>>,
                                                 nextId, e)} :
              ToolStep("add_documents_from_directory", directory_path, w)

AddText ==
    /\ phase = "ready"
    /\ \E text \in {"ta", "  "}, metadata \in {NoMeta, [key \in {"title"} |-> "T"]},
          e \in AddEnvs :
          \E w \in {add_text_document(World, text, metadata, nextId, e)} :
              ToolStep("add_text_document", text, w)

ToolGetCollectionInfo ==
    /\ phase = "ready"
    /\ \E e \in InfoEnvs :
          \E w \in {rag_get_collection_info(World, e)} :
              ToolStep("get_collection_info", <<>>, w)

ClearKnowledgeBase ==
    /\ phase = "ready"
    /\ \E e \in ClearEnvs :
          \E w \in {clear_knowledge_base(World, e)} :
              ToolStep("clear_knowledge_base", <<>>, w)

ManageStructured ==
    /\ phase = "ready"
    /\ \E fs \in ToolFileSystems, r \in StructRequests, e \in ManageEnvs :
          \E w \in {manage_rag_structured(World, fs, r.action, r.path, r.content,
                                          r.title, r.recursive, r.patterns, nextId, e)} :
              ToolStep("manage_structured", r, w)

ManageLegacy ==
    /\ phase = "ready"
    /\ \E fs \in ToolFileSystems, input_str \in LegacyRequests, e \in ManageEnvs :
          \E w \in {manage_rag(World, fs, input_str, nextId, e)} :
              ToolStep("manage", input_str, w)

ToolNext ==
    \/ RetrieveStructured
    \/ RetrieveLegacy
    \/ AddFromFiles
    \/ AddFromDirectory
    \/ AddText
    \/ ToolGetCollectionInfo
    \/ ClearKnowledgeBase
    \/ ManageStructured
    \/ ManageLegacy

ToolSpec == ToolInit /\ [][ToolNext]_vars

----------------------------------------------------------------------------
(* ToolManager: its construction over the persisted directory, with the     *)
(* RAG tools built on a VectorStore of the default store type.  The default *)
(* tools are built by constructors whose only system calls are mkdir and    *)
(* mkdtemp, taken to succeed like the other file system calls.              *)

\* the names of the tools _load_default_tools builds without the RAG system
DefaultToolNames ==
    {"calculator", "web_search", "datetime", "advanced_web_scraper", "http_download",
     "arxiv_metadata", "arxiv_search", "arxiv_versions", "arxiv_bibtex",
     "arxiv_pdf_info", "file_manager", "file_write"}

\* the names of RAGRetrievalTool.get_tool() and RAGManagementTool.get_tool()
RagToolNames == {"rag_retrieval", "rag_management"}

\* the store_type RAGRetrievalTool() builds its VectorStore with
DefaultStoreType == "faiss"

\* _load_default_tools adding the RAG tools whatever the flags say
load_default_tools_always_rag(enable_rag, rag_tool, rag_management) ==
    DefaultToolNames \cup RagToolNames

\* ToolManager._load_default_tools: the names registered in _tools
load_default_tools(enable_rag, rag_tool, rag_management) ==
    DefaultToolNames
      \cup (IF enable_rag /\ rag_tool /\ rag_management THEN RagToolNames ELSE {})

\* the VectorStore RAGRetrievalTool() constructs
RagStore(setupOK, loadOK, buildOK) ==
    IF setupOK
    THEN initialize_vector_store([World EXCEPT !.store_type = DefaultStoreType,
                                               !.vector_store = "None",
                                               !.faissMem = <<>>],
                                 "none", TRUE, loadOK, buildOK)
    ELSE [World EXCEPT !.store_type = DefaultStoreType, !.vector_store = "None",
                       !.faissMem = <<>>, !.raised = TRUE]

\* names handed to add_tool and remove_tool
ToolNameArgs == {"calculator", "rag_retrieval", "storage"}

NoManager ==
    [op |-> "none", arg |-> FALSE, ragOK |-> FALSE,
     enable_rag |-> FALSE, rag_tool |-> FALSE, rag_management |-> FALSE,
     tools |-> {}, name |-> ""]

ManagerInit ==
    /\ phase = "uninit" /\ origin = "none" /\ store_type = "" /\ vector_store = "None"
    /\ faissMem = <<>> /\ chromaColl = FALSE /\ chromaEntries = <<>>
    /\ faissDisk = NoIndex /\ dirs = {} /\ nextId = 1
    /\ last = NoManager

\* ToolManager.__init__(enable_rag); setupOK, loadOK and buildOK are the
\* outcomes of the library calls of the VectorStore constructor, which is
\* reached only when enable_rag is set
ManagerConstruct(enable_rag, setupOK, loadOK, buildOK) ==
    /\ ~enable_rag => setupOK /\ loadOK /\ buildOK
    /\ ~(setupOK /\ faissDisk.saved) => loadOK
    /\ ~setupOK => buildOK
    /\ \E w \in {IF enable_rag THEN RagStore(setupOK, loadOK, buildOK) ELSE World} :
          /\ Apply([w EXCEPT !.raised = FALSE])
          /\ phase' = IF enable_rag /\ ~w.raised THEN "ready" ELSE "failed"
          /\ last' = [NoManager EXCEPT
                         !.op = "construct", !.arg = enable_rag,
                         !.ragOK = enable_rag /\ ~w.raised,
                         !.enable_rag = enable_rag /\ ~w.raised,
                         !.rag_tool = enable_rag /\ ~w.raised,
                         !.rag_management = enable_rag /\ ~w.raised,
                         !.tools = load_default_tools(enable_rag /\ ~w.raised,
                                                      enable_rag /\ ~w.raised,
                                                      enable_rag /\ ~w.raised)]
    /\ UNCHANGED origin

\* ToolManager.add_tool
ManagerAddTool(name) ==
    /\ last.op # "none"
    /\ last' = [last EXCEPT !.op = "add_tool", !.name = name, !.tools = @ \cup {name}]
    /\ UNCHANGED <<phase, origin, store_type, vector_store, faissMem, chromaColl,
                   chromaEntries, faissDisk, dirs, nextId>>

\* ToolManager.remove_tool
ManagerRemoveTool(name) ==
    /\ last.op # "none"
    /\ last' = [last EXCEPT !.op = "remove_tool", !.name = name, !.tools = @ \ {name}]
    /\ UNCHANGED <<phase, origin, store_type, vector_store, faissMem, chromaColl,
                   chromaEntries, faissDisk, dirs, nextId>>

\* the rag_management tool of the manager adding a text to the knowledge base
ManagerAddText(text) ==
    /\ last.op # "none" /\ last.rag_management /\ "rag_management" \in last.tools
    /\ nextId + Len(chunked_docs(<<process_text(text, NoMeta)>>, nextId)) - 1 <= MaxIds
    /\ Apply(add_documents(World, <<process_text(text, NoMeta)>>, nextId, TRUE, TRUE))
    /\ last' = [last EXCEPT !.op = "add_text", !.name = text]
    /\ UNCHANGED <<phase, origin>>

ManagerNext ==
    \/ \E enable_rag, setupOK, loadOK, buildOK \in BOOLEAN :
          ManagerConstruct(enable_rag, setupOK, loadOK, buildOK)
    \/ \E name \in ToolNameArgs : ManagerAddTool(name)
    \/ \E name \in ToolNameArgs : ManagerRemoveTool(name)
    \/ \E text \in {"ta", "zz"} : ManagerAddText(text)

ManagerSpec == ManagerInit /\ [][ManagerNext]_vars

----------------------------------------------------------------------------
(* Properties *)

\* the messages _init_chroma is documented to treat as a schema mismatch
RecognisedMessages ==
    {"no such column: collections.topic", "sqlite3.OperationalError: disk I/O error",
     "schema mismatch"}

\* the document_count get_collection_info reports when the count can be read
DocumentCount == get_collection_info(World, TRUE).count

\* what each search of SearchArgs returns when the backend search succeeds
SearchResults ==
    [a \in SearchArgs |-> similarity_search(World, a[1], a[2], a[3], TRUE).list]

\* the handle the store needs for its store_type is there
BackendReady ==
    \/ store_type = "chroma" /\ vector_store = "Chroma" /\ chromaColl
    \/ store_type = "faiss" /\ vector_store = "FAISS"

\* the constructor got as far as _initialize_vector_store with chroma requested
ChromaRequested == last.op = "construct" /\ last.setupOK /\ lower(last.req) = "chroma"

\* C1: with chroma requested, a failure to open it makes the constructor
\* initialise faiss instead and end ready on faiss; once backend initialisation
\* is reached the constructor raises only if faiss initialisation failed or
\* the requested type is neither chroma nor faiss.
C1_FallbackInsteadOfFailure ==
    /\ (ChromaRequested /\ last.chromaFailed) =>
          IF last.faissFailed
          THEN last.raised /\ phase = "failed"
          ELSE ~last.raised /\ phase = "ready" /\ store_type = "faiss"
               /\ vector_store = "FAISS"
    /\ (last.op = "construct" /\ last.setupOK /\ last.raised) =>
          \/ last.faissFailed
          \/ lower(last.req) \notin {"chroma", "faiss"}

C1_Witness ==
    /\ ChromaRequested /\ last.chromaFailed /\ last.err = "permission denied"
    /\ phase = "ready" /\ store_type = "faiss" /\ vector_store = "FAISS"

\* C2: no call other than a construction changes store_type; in particular a
\* store on faiss never returns to chroma.
C2_StoreTypeFixed ==
    [][(phase = "ready" /\ last'.op # "construct") => store_type' = store_type]_vars

C2_Witness ==
    /\ phase = "ready" /\ store_type = "faiss" /\ origin = "fallback"
    /\ last.op = "clear" /\ last.flag /\ "chroma" \in dirs

\* C3: when chroma fails to initialise with a schema-mismatch error (the
\* open after the directory reset failed too) and faiss initialises, the store
\* ends ready on faiss; neither add nor search drops the backend handle it got,
\* and with that handle an add whose embedding and saving succeed returns one
\* stored identifier per chunk and a search that does not fail returns the
\* nearest entries.
C3_SchemaFallbackReady ==
    /\ [](/\ (ChromaRequested /\ last.err \in RecognisedMessages /\ last.chromaFailed
                 /\ ~last.faissFailed) =>
                /\ ~last.raised /\ phase = "ready" /\ store_type = "faiss"
                /\ vector_store = "FAISS" /\ origin = "schema_fallback"
          /\ (origin = "schema_fallback" /\ vector_store = "FAISS" /\ last.op = "add"
                 /\ ~last.fault /\ last.docs # <<>>) =>
                /\ ~last.raised
                /\ Len(last.list) = Len(chunked_docs(last.docs, 1))
                /\ \A i \in 1..Len(last.list) :
                      \E j \in 1..Len(faissMem) : faissMem[j].id = last.list[i]
          /\ (origin = "schema_fallback" /\ vector_store = "FAISS" /\ last.op = "search"
                 /\ ~last.fault /\ last.filter = NoFilter) =>
                /\ ~last.raised
                /\ Len(last.list) = Min(last.k, Len(faissMem)) /\ last.list # <<>>)
    /\ [][(origin = "schema_fallback" /\ last'.op \in {"add", "search"})
            => vector_store' = vector_store /\ store_type' = store_type]_vars

C3_Witness ==
    /\ origin = "schema_fallback" /\ store_type = "faiss"
    /\ last.op = "add" /\ last.docs # <<>> /\ ~last.raised /\ last.list # <<>>

\* C4: in _init_chroma a recognised message makes the store delete the
\* directory once and open Chroma a second time, never a third; any other
\* error, and no error, deletes nothing and opens Chroma once only; a failed
\* retry and an unrecognised error make _init_chroma give up.
C4_ResetAndRetryOnce ==
    last.opens > 0 =>
        /\ last.err \in RecognisedMessages =>
              /\ last.resets = 1 /\ last.opens = 2
              /\ last.chromaFailed <=> ~last.retryOK
              /\ last.op = "construct" => chromaEntries = <<>>
        /\ last.err \notin RecognisedMessages =>
              /\ last.resets = 0 /\ last.opens = 1
              /\ last.chromaFailed <=> last.err # "none"

C4_Witness ==
    /\ last.op = "construct" /\ last.err = "schema mismatch" /\ ~last.retryOK
    /\ last.resets = 1 /\ last.opens = 2 /\ last.chromaFailed

\* C5: a constructed store always holds the backend handle of its store_type.
C5_StaysReady == phase = "ready" => BackendReady

\* C6: after clearCollection returned true the reported document_count is 0.
C6_ClearedCountIsZero ==
    (phase = "ready" /\ last.op = "clear" /\ last.flag) => DocumentCount = 0

\* a collection that holds no ingested chunk
EmptyCollection ==
    /\ BackendReady
    /\ IF store_type = "chroma" THEN chromaEntries = <<>> ELSE faissMem = <<dummy_doc>>

\* C7: clearCollection on an empty collection returns true unless a library
\* call of it fails, and when it returns true store_type, document_count and
\* the search results are what they were before the call.
C7_ClearIdempotent ==
    [][(phase = "ready" /\ EmptyCollection /\ last'.op = "clear") =>
          /\ ~last'.fault => last'.flag
          /\ last'.flag => /\ store_type' = store_type
                           /\ DocumentCount' = DocumentCount
                           /\ SearchResults' = SearchResults
                           /\ EmptyCollection']_vars

C7_Witness ==
    /\ phase = "ready" /\ EmptyCollection /\ last.op = "clear" /\ last.flag
    /\ store_type = "chroma"

\* C8: addDocuments of the empty list returns the empty list, raises nothing,
\* calls no backend method and changes neither the entries nor the saved index.
C8_EmptyAddIsNoop ==
    [][(phase = "ready" /\ last'.op = "add" /\ last'.docs = <<>>) =>
          /\ ~last'.raised /\ last'.list = <<>> /\ last'.calls = 0
          /\ DocumentCount' = DocumentCount
          /\ chromaEntries' = chromaEntries /\ faissMem' = faissMem
          /\ faissDisk' = faissDisk /\ nextId' = nextId]_vars

C8_Witness ==
    /\ last.op = "add" /\ last.docs = <<>> /\ ~last.raised
    /\ DocumentCount = 2

\* C9: an addDocuments of a non-empty list whose embedding or saving fails
\* raises and returns no identifier list.
C9_FailedAddRaises ==
    (last.op = "add" /\ last.docs # <<>> /\ last.fault) =>
        last.raised /\ last.list = <<>>

C9_Witness ==
    /\ last.op = "add" /\ last.docs # <<>> /\ last.fault /\ last.raised
    /\ store_type = "faiss" /\ last.calls = 2

\* the line a query without hits is rendered as
ZeroHitLine(query) == <<"No documents found for query: '", query, "'">>

\* C10: the searches never raise and return the empty list when the backend
\* search fails; retrieve then renders the line of a query without hits.
C10_QueryFailureIsZeroHits ==
    last.op \in {"search", "search_with_score", "retrieve"} =>
        /\ ~last.raised
        /\ last.fault => last.list = <<>>
        /\ (last.op = "retrieve" /\ last.list = <<>>) => last.text = ZeroHitLine(last.query)

C10_Witness ==
    /\ last.op = "retrieve" /\ last.fault /\ last.calls = 1
    /\ last.text = ZeroHitLine(last.query) /\ DocumentCount = 2

\* the backend identifiers of the entries of a collection
IdSet(entries) == {entries[i].id : i \in 1..Len(entries)}

\* C12: deleteDocuments never raises; on faiss it returns false and leaves
\* the index, the saved index, the count and the search results as they were;
\* on chroma, when the backend's delete call succeeds, it returns true, no
\* entry and no search result carries a deleted identifier, and an identifier
\* that was assigned and is gone never comes back.
C12_DeletionAsymmetry ==
    /\ [](last.op = "delete" =>
            /\ ~last.raised
            /\ store_type = "faiss" => ~last.flag /\ last.calls = 0
            /\ (store_type = "chroma" /\ BackendReady /\ ~last.fault) =>
                  /\ last.flag
                  /\ IdSet(chromaEntries) \cap last.ids = {}
                  /\ \A a \in SearchArgs : IdSet(SearchResults[a]) \cap last.ids = {})
    /\ [][(last'.op = "delete" /\ store_type = "faiss") =>
            /\ faissMem' = faissMem /\ faissDisk' = faissDisk
            /\ DocumentCount' = DocumentCount /\ SearchResults' = SearchResults]_vars
    /\ [][\A id \in 1..(nextId - 1) :
              id \notin IdSet(chromaEntries) => id \notin IdSet(chromaEntries')]_vars

C12_Witness ==
    /\ last.op = "delete" /\ store_type = "chroma" /\ last.flag
    /\ last.ids = {1, 2} /\ nextId = 3 /\ chromaEntries = <<>>

\* the Documents of a search result, scored or not
ResultDocs(r, scored) == IF scored THEN [i \in 1..Len(r) |-> r[i][1]] ELSE r

\* what the last search returns when called without a filter
UnfilteredTopK == similarity_search(World, last.query, last.k, NoFilter, TRUE).list

\* the last call is a search on faiss whose backend call did not fail
FaissSearched ==
    /\ last.op \in {"search", "search_with_score"} /\ ~last.fault
    /\ store_type = "faiss" /\ vector_store = "FAISS"

\* C13: on faiss a search returns, in order, exactly the entries of the
\* unfiltered top-k result whose metadata equals the filter on every key, so
\* never more than k and never an entry from outside the unfiltered top k.
C13_PostFilterOfTopK ==
    FaissSearched =>
        /\ ResultDocs(last.list, last.scored)
              = SelectSeq(UnfilteredTopK,
                          LAMBDA c : \A key \in DOMAIN last.filter :
                                        MetaGet(c, key) = last.filter[key])
        /\ Len(last.list) <= last.k
        /\ Len(UnfilteredTopK) = Min(last.k, Len(faissMem))

\* no hit although an entry outside the top k matches the filter
C13_Witness ==
    /\ FaissSearched /\ last.scored /\ last.filter = FilterA /\ last.list = <<>>
    /\ \E i \in 1..Len(faissMem) : Matches(faissMem[i], last.filter)

\* the last two calls were both op, the last with a result
TwoCalls(op) == last.op = op /\ last.prev.op = op

LastDocId == last.docs[1].metadata["doc_id"]

PrevDocId == last.prev.docs[1].metadata["doc_id"]

\* C19 as stated: with or without caller metadata, two processText calls give
\* equal doc_ids exactly when their texts are equal.
C19_TextAloneDecidesDocId ==
    TwoCalls("process_text") => (LastDocId = PrevDocId <=> last.arg = last.prev.arg)

\* C19, amended: when neither call's metadata carries a doc_id key, two
\* processText calls give equal doc_ids exactly when their texts are equal,
\* whatever else the caller's metadata holds.
C19_TextDecidesDocIdUnlessGiven ==
    (/\ TwoCalls("process_text")
     /\ "doc_id" \notin DOMAIN last.metadata
     /\ "doc_id" \notin DOMAIN last.prev.metadata) =>
        (LastDocId = PrevDocId <=> last.arg = last.prev.arg)

C19_Witness ==
    /\ TwoCalls("process_text") /\ last.arg = "ta" /\ last.prev.arg = "ta"
    /\ last.metadata = NoMeta /\ "title" \in DOMAIN last.prev.metadata
    /\ LastDocId = PrevDocId

\* C20: two processFile calls that return a Document give it the same doc_id
\* when the files hold the same text, and different doc_ids when one path
\* holds different texts at the two calls.
C20_FileDocIdFromContent ==
    (TwoCalls("process_file") /\ last.docs # <<>> /\ last.prev.docs # <<>>
        /\ last.metadata = NoMeta /\ last.prev.metadata = NoMeta) =>
        /\ last.content = last.prev.content => LastDocId = PrevDocId
        /\ (last.arg = last.prev.arg /\ last.content # last.prev.content) =>
              LastDocId # PrevDocId

\* the entry points of the two tools
EntryPoints ==
    {"retrieve_structured", "retrieve", "add_documents_from_files",
     "add_documents_from_directory", "add_text_document", "get_collection_info",
     "clear_knowledge_base", "manage_structured", "manage"}

\* C11: every entry point of the Retrieval Tool and of the Management Tool
\* returns a string and raises nothing, whatever its input and whichever
\* call into the Document Processor or the Vector Store failed, an add that
\* the Vector Store raised included.
C11_ToolsNeverRaise ==
    last.op \in EntryPoints => ~last.raised /\ last.text # <<>>

\* an add that the Vector Store raised comes back as the error string
C11_Witness ==
    /\ last.op = "add_text_document" /\ last.adds = 1 /\ ~last.raised
    /\ last.text = <<"Error adding text document: ", "exception">>

\* the pairs of a filter in the legacy grammar: key=value, comma-separated
RECURSIVE EncodePairs(_, _)
EncodePairs(f, keys) ==
    IF keys = {} THEN <<>>
    ELSE LET key == CHOOSE x \in keys : TRUE
         IN  Chars(key) \o <<"=">> \o Chars(f[key])
               \o (IF keys = {key} THEN <<>> ELSE <<",">>)
               \o EncodePairs(f, keys \ {key})

\* the legacy string for the typed fields a:
\* query|k:<k>|with_scores:<true or false>[|filter:key=value,...]
Encode(a) ==
    Intern(Chars(a.query) \o <<"|", "k", ":">> \o Chars(Str(a.k))
             \o <<"|", "w", "i", "t", "h", "_", "s", "c", "o", "r", "e", "s", ":">>
             \o Chars(IF a.with_scores THEN "true" ELSE "false")
             \o (IF a.filter_metadata = NoFilter THEN <<>>
                 ELSE <<"|", "f", "i", "l", "t", "e", "r", ":">>
                        \o EncodePairs(a.filter_metadata, DOMAIN a.filter_metadata)))

\* s has no surrounding whitespace and none of the characters in chars
Plain(s, chars) == strip(s) = s /\ \A ch \in chars : ~has(s, ch)

\* typed fields whose legacy string the grammar reads back unchanged
Encodable(a) ==
    /\ Plain(a.query, {"|", ":"})
    /\ \A key \in DOMAIN a.filter_metadata :
          /\ Plain(key, {"|", ",", "="})
          /\ Plain(a.filter_metadata[key], {"|", ","})

\* both entry points issue the same search and return the same string
SameRetrieval(a, searchOK) ==
    LET legacy == retrieve_documents(World, Encode(a), searchOK)
        structured == retrieve_documents_structured(World, a.query, a.k, a.with_scores,
                                                    a.filter_metadata, searchOK)
    IN  legacy.search = structured.search /\ legacy.text = structured.text

\* C14 as stated: for every query, k, with_scores flag and metadata filter,
\* the legacy entry point given their encoding and the structured entry
\* point given them as typed fields issue the same vector-store call and
\* return the same string.
C14_LegacyEqualsStructured ==
    \A a \in StructArgs, searchOK \in BOOLEAN : SameRetrieval(a, searchOK)

\* C14: for every query without '|', ':' and surrounding whitespace, every
\* k and with_scores flag, and every filter (absent, or with pairs whose
\* keys and values have no '|', ',' and no surrounding whitespace, and
\* whose keys have no '='), the
\* legacy entry point given their encoding and the structured entry point
\* given them as typed fields issue the same vector-store call and return
\* the same string.
C14_LegacyEqualsStructuredWhenEncodable ==
    \A a \in {x \in StructArgs : Encodable(x)}, searchOK \in BOOLEAN :
        SameRetrieval(a, searchOK)

\* a legacy retrieval of an encoded request found a document, as the
\* structured one does in the same state
C14_Witness ==
    /\ last.op = "retrieve"
    /\ \E a \in StructArgs :
          /\ Encodable(a) /\ last.input = Encode(a)
          /\ last.search = <<a.with_scores, a.query, a.k, a.filter_metadata>>
    /\ last.text # <<>> /\ Head(last.text) = "Found "

\* the first pipe-separated segment of s
FirstSegment(s) == split(s, "|")[1]

\* the parameter string of a legacy management input with a colon
LegacyParams(input_str) == split1(input_str, ":")[2]

\* C15: in the legacy string grammar, whenever the first pipe-separated
\* segment has no colon, that segment is the query the retrieval searches
\* for, or the path or text the management operation works on, whatever
\* labeled segments follow it.
C15_FirstSegmentIsUsed ==
    /\ (last.op = "retrieve" /\ last.search # <<>>
            /\ ~has(FirstSegment(last.input), ":"))
          => last.search[2] = strip(FirstSegment(last.input))
    /\ (last.op = "manage" /\ has(last.input, ":")
            /\ last.invoked \in {"add_file", "add_directory", "add_text"}
            /\ ~has(FirstSegment(LegacyParams(last.input)), ":"))
          => LET segment == strip(FirstSegment(LegacyParams(last.input)))
             IN  IF last.invoked = "add_file" THEN last.arg = <<segment>>
                 ELSE last.arg = segment

\* the six actions of the Management Tool
Actions == {"add_file", "add_files", "add_directory", "add_text", "info", "clear"}

\* the required parameter of a structured request is there
StructuredParameterGiven(r) ==
    CASE r.action \in {"add_file", "add_files", "add_directory"} -> ~Falsy(r.path)
      [] r.action = "add_text" -> ~Falsy(r.content)
      [] OTHER -> TRUE

\* the action part of a legacy input: the text before the first colon
ActionPart(input_str) == split1(input_str, ":")[1]

\* the required parameter of a legacy input is there
LegacyParameterGiven(input_str) ==
    ActionPart(input_str) \in {"info", "clear"}
      \/ (has(input_str, ":") /\ strip(LegacyParams(input_str)) # "")

\* C16: each of add_file, add_files, add_directory, add_text, info and
\* clear is recognised by both entry points: when the action field, or the
\* text before the first colon of a legacy input, is one of these names
\* (and its parameter is given), the operation of that name is invoked and
\* the unknown-action message is not returned.
C16_SixActionsRecognised ==
    /\ (last.op = "manage_structured" /\ last.input.action \in Actions
            /\ StructuredParameterGiven(last.input))
          => last.invoked = last.input.action
               /\ last.text # UnknownAction(last.input.action)
    /\ (last.op = "manage" /\ ActionPart(last.input) \in Actions
            /\ LegacyParameterGiven(last.input))
          => last.invoked = ActionPart(last.input)
               /\ last.text # UnknownAction(ActionPart(last.input))

\* the first pieces of the strings that report a refusal or a failure
ErrorHeads ==
    {"Error: path parameter required for ",
     "Error: content parameter required for add_text action",
     "Error adding documents from files: ", "Error adding documents from directory: ",
     "Error adding text document: ", "Error managing RAG system: ",
     "No valid documents found in the provided files.",
     "No valid documents found in directory '"}

\* the last management request named an add action and gave it no parameter
ParameterMissing ==
    \/ /\ last.op = "manage_structured"
       /\ \/ /\ last.input.action \in {"add_file", "add_files", "add_directory"}
             /\ Falsy(last.input.path)
          \/ last.input.action = "add_text" /\ Falsy(last.input.content)
    \/ /\ last.op = "manage" /\ has(last.input, ":")
       /\ ActionPart(last.input) \in {"add_file", "add_files", "add_directory", "add_text"}
       /\ LegacyParams(last.input) = ""

\* C17: through either Management Tool entry point, a request whose
\* required parameter is missing (empty path for add_file, add_files or
\* add_directory, empty content for add_text) returns an error string,
\* invokes no ingestion on the Document Processor or the Vector Store, and
\* leaves document_count unchanged.
C17_MissingParameterRefused ==
    ParameterMissing =>
        /\ Head(last.text) \in ErrorHeads
        /\ last.proc = 0 /\ last.adds = 0
        /\ last.after = last.before

\* the first pieces of the strings that report a successful ingestion
SuccessHeads ==
    {"Successfully added ", "Successfully added text document to knowledge base (ID: "}

\* the last call ingested through VectorStore.add_documents
Ingested == last.op \in EntryPoints /\ last.adds > 0

\* C18: every Document that add_documents_from_files,
\* add_documents_from_directory or add_text_document hands to
\* VectorStore.add_documents has passed validation (its content is not
\* empty once stripped and its metadata has a doc_id), and no ingestion
\* reports success when all the text it was given is empty or whitespace.
C18_OnlyValidatedDocumentsIngested ==
    Ingested =>
        /\ \A i \in 1..Len(last.handed) :
              ~IsBlank(last.handed[i].page_content) /\ HasDocId(last.handed[i])
        /\ (\A i \in 1..Len(last.handed) : IsBlank(last.handed[i].page_content))
              => Head(last.text) \notin SuccessHeads

\* the chunks the collection in use holds (the seed of a new faiss index is
\* no chunk)
StoredChunks ==
    SelectSeq(IF store_type = "chroma" THEN chromaEntries ELSE faissMem,
              LAMBDA c : c.id # 0)

\* the chunks the last add_documents stored
AddedChunks == SelectSeq(StoredChunks, LAMBDA c : \E i \in 1..Len(last.list) : last.list[i] = c.id)

\* C21: for every chunk add_documents produces from any Document, with or
\* without a doc_id, chunk_id is the chunk's parent_doc_id followed by '_'
\* and its chunk_index, and all chunks of one Document carry the same
\* parent_doc_id (the Document's doc_id when it has one).
C21_ChunkIdFromParent ==
    /\ \A i \in 1..Len(StoredChunks) :
          LET c == StoredChunks[i]
          IN  /\ c.chunk_id = <<c.parent_doc_id, c.chunk_index>>
              /\ c.doc_id # "" => c.parent_doc_id = c.doc_id
    /\ (last.op = "add" /\ ~last.raised /\ Len(last.docs) = 1)
          => \A i, j \in 1..Len(AddedChunks) :
                AddedChunks[i].parent_doc_id = AddedChunks[j].parent_doc_id

\* what the claim expects of the chunks of a batch: text, chunk_index and
\* total_chunks, Document by Document
RECURSIVE ExpectedNumbering(_)
ExpectedNumbering(documents) ==
    IF documents = <<>> THEN <<>>
    ELSE LET pieces == split_documents(Head(documents))
         IN  [i \in 1..Len(pieces) |-> <<pieces[i], i - 1, Len(pieces)>>]
               \o ExpectedNumbering(Tail(documents))

\* C22: add_documents stores the chunks of a batch in document order, at the
\* end of the collection; the chunks of each Document are numbered
\* chunk_index 0..n-1 with total_chunks = n, n being the number of chunks the
\* splitter cut that Document into, and the numbering restarts with every
\* Document of the batch.
C22_ChunkNumbering ==
    (last.op = "add" /\ ~last.raised)
      => /\ [i \in 1..Len(AddedChunks) |->
                <<AddedChunks[i].text, AddedChunks[i].chunk_index,
                  AddedChunks[i].total_chunks>>] = ExpectedNumbering(last.docs)
         /\ Ids(AddedChunks) = last.list
         /\ SubSeq(StoredChunks, Len(StoredChunks) - Len(AddedChunks) + 1,
                   Len(StoredChunks)) = AddedChunks

\* a batch of two Documents was stored, each numbered from 0
C22_Witness ==
    /\ last.op = "add" /\ ~last.raised /\ Len(last.docs) = 2
    /\ Len(AddedChunks) = 2
    /\ AddedChunks[1].chunk_index = 0 /\ AddedChunks[2].chunk_index = 0

\* the files of a scanned directory that are read: supported, readable and
\* matching the include patterns, in listing order
ReadableFiles ==
    SelectSeq(Paths, LAMBDA p :
        /\ last.fs[p] \notin {Absent, Unreadable}
        /\ is_supported(p)
        /\ last.patterns # <<>> =>
              \E i \in 1..Len(last.patterns) : MatchesPattern(p, last.patterns[i]))

\* C23: process_file and process_directory never raise: a missing file or
\* directory, an unsupported extension, a system call that fails or a loader
\* that fails gives the empty list for that file, and a file that fails
\* during a directory scan does not keep the other files from being
\* processed (the result holds one Document for every readable file).
C23_ProcessorNeverRaises ==
    /\ ~last.raised
    /\ last.op = "process_file"
          => ((\/ At(last.fs, last.arg) \in {Absent, Unreadable}
               \/ ~is_supported(last.arg)
               \/ ~last.loadOK \/ ~last.ok) => last.docs = <<>>)
    /\ last.op = "process_directory"
          => IF At(last.fs, last.arg) # IsDir \/ ~last.ok THEN last.docs = <<>>
             ELSE [i \in 1..Len(last.docs) |-> last.docs[i].metadata["source"]]
                    = ReadableFiles

\* a scan met an unreadable a.txt and still returned the Document of c.txt
C23_Witness ==
    /\ last.op = "process_directory" /\ last.ok
    /\ last.fs["a.txt"] = Unreadable
    /\ Len(last.docs) = 1 /\ last.docs[1].metadata["source"] = "c.txt"

\* C24: on either backend, when the collection holds the chunk of one
\* Document only (a freshly cleared collection to which one Document with a
\* token of its own was added), similarity_search for the token with k = 1
\* returns exactly that chunk, provided the backend's search succeeds.
C24_AddedDocumentIsFound ==
    (/\ last.op = "search" /\ ~last.fault /\ Usable(World)
     /\ last.k = 1 /\ last.filter = NoFilter
     /\ Len(StoredChunks) = 1 /\ StoredChunks[1].text = last.query)
      => last.list = <<StoredChunks[1]>>

\* the search found the added chunk on faiss, next to the seed of the index
C24_Witness ==
    /\ last.op = "search" /\ ~last.fault /\ last.k = 1 /\ last.query = "ta"
    /\ store_type = "faiss" /\ Len(faissMem) = 2 /\ faissMem[1] = dummy_doc
    /\ last.list = <<faissMem[2]>> /\ faissMem[2].text = "ta"

\* C25: a ToolManager registers rag_retrieval and rag_management exactly
\* when enable_rag is true and the RAG system could be initialised;
\* otherwise its construction still succeeds, the default tools that are not
\* RAG tools are registered, and no registered tool has 'rag' in its name.
C25_RagToolsWhenEnabledAndInitialised ==
    last.op = "construct"
      => /\ DefaultToolNames \subseteq last.tools
         /\ \A t \in RagToolNames : t \in last.tools <=> (last.arg /\ last.ragOK)
         /\ ~(last.arg /\ last.ragOK)
               => \A t \in last.tools : ~InStr("rag", str_lower(t))

\* a ToolManager asked for RAG whose VectorStore could not be built
C25_Witness ==
    /\ last.op = "construct" /\ last.arg /\ ~last.ragOK
    /\ last.tools = DefaultToolNames /\ ~last.enable_rag

\* C26: within the life of one VectorStore, an add_documents call that
\* returns increases document_count by exactly the number of chunks it made
\* and returns one identifier for each of them, whether or not the same
\* Document was added before; and document_count never decreases by a call
\* other than clear_collection or delete_documents.
C26_AddGrowsCountByChunks ==
    [][/\ (last'.op = "add" /\ ~last'.raised)
          => /\ DocumentCount' = DocumentCount + Len(chunked_docs(last'.docs, nextId))
             /\ Len(last'.list) = Len(chunked_docs(last'.docs, nextId))
       /\ last'.op \notin {"construct", "clear", "delete"}
          => DocumentCount' >= DocumentCount]_vars

\* the Document that was in the collection already was added again, and the
\* collection holds its chunk twice
C26_Witness ==
    /\ last.op = "add" /\ ~last.raised /\ last.docs = <<DocA>>
    /\ Len(StoredChunks) = 2
    /\ StoredChunks[1].text = "ta" /\ StoredChunks[2].text = "ta"
    /\ DocumentCount = Len(StoredChunks) + (IF store_type = "faiss" THEN 1 ELSE 0)

\* C27: a search returns only chunks that add_documents ingested and that
\* were not cleared since; on a collection without ingested chunks the
\* searches return the empty list on either backend, and retrieve renders
\* the line of a query without hits.
C27_SearchReturnsIngestedOnly ==
    last.op \in {"search", "search_with_score", "retrieve"} =>
        /\ \A i \in 1..Len(last.list) :
              \E j \in 1..Len(StoredChunks) :
                  ResultDocs(last.list, last.scored)[i] = StoredChunks[j]
        /\ StoredChunks = <<>> =>
              /\ last.list = <<>>
              /\ last.op = "retrieve" => last.text = ZeroHitLine(last.query)

ChromaDirKept ==
    /\ "chroma" \in dirs => "chroma" \in dirs'
    /\ chromaColl' = chromaColl /\ chromaEntries' = chromaEntries

\* the faiss_index subdirectory stays, with the index saved in it
FaissDirKept ==
    /\ "faiss_index" \in dirs => "faiss_index" \in dirs'
    /\ faissDisk' = faissDisk

\* C29 as stated: no operation deletes or modifies the persisted subdirectory
\* of the backend the store is not using after it: whenever a call leaves the
\* store on faiss (a fallback included) the chroma subdirectory and its
\* contents are what they were, and whenever it leaves the store on chroma
\* the faiss_index subdirectory and the index saved in it are.
C29_OtherBackendUntouched ==
    [][/\ store_type' = "faiss" => ChromaDirKept
       /\ store_type' = "chroma" => FaissDirKept]_vars

\* C29, amended: as above, except that a constructor whose _init_chroma met
\* a schema mismatch has reset the chroma subdirectory before it fell back:
\* the subdirectory is then still there, but empty.
C29_OtherBackendUntouchedUnlessReset ==
    [][/\ store_type' = "faiss" =>
            IF last'.op = "construct" /\ last'.resets > 0
            THEN "chroma" \in dirs' /\ chromaEntries' = <<>>
            ELSE ChromaDirKept
       /\ store_type' = "chroma" => FaissDirKept]_vars

\* a store that fell back to faiss over a chroma subdirectory that holds
\* chunks, and cleared its faiss collection since
C29_Witness ==
    /\ store_type = "faiss" /\ origin = "fallback" /\ "chroma" \in dirs
    /\ chromaEntries # <<>> /\ last.op = "clear" /\ last.flag

\* the entries a new VectorStore holds when it is constructed on the persist
\* directory as it is, its library calls succeeding
Reopened ==
    init_faiss([World EXCEPT !.vector_store = "None", !.faissMem = <<>>], TRUE, TRUE).faissMem

\* the live faiss index and the persisted one hold the same entries
InSync == vector_store = "FAISS" /\ Reopened = faissMem

\* the call that made the step is an add_documents or a clear_collection
\* that returned successfully
WroteSuccessfully ==
    \/ last'.op = "add" /\ ~last'.raised
    \/ last'.op = "clear" /\ last'.flag

\* C30: on faiss a VectorStore whose construction met no failure holds what a
\* new VectorStore on its persist directory would hold, every add_documents
\* and clear_collection call that returns successfully keeps it so, and a new
\* VectorStore then constructed on the directory holds the same entries and
\* reports the same document_count as the instance that wrote them.
C30_PersistedIndexNeverLags ==
    [][/\ (last'.op = "construct" /\ store_type' = "faiss" /\ ~last'.fault) => InSync'
       /\ (store_type = "faiss" /\ InSync /\ WroteSuccessfully) => InSync'
       /\ (/\ store_type = "faiss" /\ InSync
           /\ last'.op = "construct" /\ lower(last'.req) = "faiss" /\ ~last'.fault)
             => faissMem' = faissMem /\ DocumentCount' = DocumentCount]_vars

\* a new VectorStore loaded the chunk its predecessor added and saved
C30_Witness ==
    /\ last.op = "construct" /\ ~last.fault /\ store_type = "faiss"
    /\ faissDisk.saved /\ faissMem = faissDisk.entries
    /\ Len(faissMem) = 2 /\ faissMem[2].text = "ta"

====
